---- MODULE Spec2Model ----
(***************************************************************************)
(* Model of the audio data plane of the LAN audio streamer:                *)
(*   - RingBuffer  (src/src/audio/buffer.rs), the bounded SPSC frame queue *)
(*   - JitterBuffer (src/src/audio/buffer.rs), the sequence-indexed        *)
(*     reorder buffer                                                      *)
(*   - AudioCapture (src/src/audio/capture.rs), the capture pump           *)
(*   - OpusEncoder (src/src/codec/encoder.rs)                              *)
(*   - the receiver's main loop (src/src/bin/receiver.rs)                  *)
(*   - the sender's main loop (src/src/bin/sender.rs)                      *)
(*   - the wire codec, the sender and the receiver's I/O thread, which are *)
(*     modelled from sections 4.4 and 6 of the specification               *)
(* u32 sequence numbers keep their 32-bit width: a u32 is a pair of 16-bit *)
(* limbs, so that wrap-around at 2^32 is computed as the machine does.     *)
(***************************************************************************)
EXTENDS Integers, Sequences, FiniteSets, TLC

VARIABLES
    ring,       \* the RingBuffer: queue, capacity, overflow_count, underrun_count
    ringRet,    \* the last RingBuffer call and what it returned
    pushed,     \* history: frames whose push returned true, in call order
    popped,     \* history: frames returned by pop / try_pop, in call order
    jitter,     \* the JitterBuffer: slots, capacity, mask, next_sequence, ...
    jitterRet,  \* the last JitterBuffer call, its argument and what it returned
    lastOut,    \* history: the last frame get_next returned (since reset)
    anchor,     \* scenario: the sequence number the stream starts at
    arrivals,   \* scenario: the sequence numbers to insert, in arrival order
    inserted,   \* scenario: how many of them have been inserted
    outputs,    \* scenario: what the get_next calls returned, in call order
    capture,    \* the AudioCapture, its worker thread and its device stream
    captureRet, \* the last call the owner made on the AudioCapture and its result
    captureHist, \* history: calls made and device events delivered so far
    encoder,    \* the OpusEncoder: frame_size, channels, frames_encoded, bytes_produced
    encoderRet, \* the last encode call and what it returned
    sender,     \* the AudioSender: per-track sequence counters and statistics
    senderRet,  \* the last send_audio call, the packet it composed and its result
    wire,       \* datagrams on their way to the receiver's socket, oldest first
    receiver,   \* the AudioReceiver I/O thread: its statistics
    channel,    \* the global channel of ReceivedPacket, oldest first
    trackStates, \* the receiver's per-track state: jitter buffer and packet counts
    netHist,    \* history: what was sent, lost and parsed so far
    senderLoop, \* the sender's main loop: sample_buffer and its packet count
    loopHist,   \* history: samples the loop popped and blocks it gave the encoder
    ops         \* number of calls made so far (bounds the exploration)

ringVars == <<ring, ringRet, pushed, popped>>
jitterVars == <<jitter, jitterRet, lastOut>>
scenarioVars == <<anchor, arrivals, inserted, outputs>>
captureVars == <<capture, captureRet, captureHist>>
codecVars == <<encoder, encoderRet>>
netVars == <<sender, senderRet, wire, receiver, channel, trackStates, netHist>>
loopVars == <<senderLoop, loopHist>>
vars == <<ring, ringRet, pushed, popped, jitter, jitterRet, lastOut,
          anchor, arrivals, inserted, outputs, capture, captureRet, captureHist,
          encoder, encoderRet, sender, senderRet, wire, receiver, channel,
          trackStates, netHist, senderLoop, loopHist, ops>>

---------------------------------------------------------------------------
(* Bounds of the exploration *)

RingCapacity == 2      \* capacity of the explored RingBuffer
MaxRingOps == 8        \* calls made on the RingBuffer
CapBits == 2           \* the explored JitterBuffer has 2^CapBits slots
MaxMinDelay == 2       \* min_delay ranges over 0..MaxMinDelay
MaxSeq == 5            \* inserted sequences range over 0..MaxSeq (and the top of u32)
MaxJitterOps == 4      \* calls made on the JitterBuffer
MaxOffset == 3         \* scenario: arrivals lie 0..MaxOffset after the first sequence
MaxArrivals == 4       \* scenario: length of the enumerated arrival orders
ExtraGets == 2         \* scenario: get_next calls made beyond one per arrival
MaxCaptureCalls == 3   \* calls the owner makes on the AudioCapture
MaxCallbacks == 3      \* input callbacks the device delivers
CaptureRingCapacity == 1  \* capacity of the ring the explored AudioCapture fills
MaxStreamErrors == 1   \* error callbacks the device delivers
MaxDataLen == 1        \* samples per input callback range over 1..MaxDataLen
MaxOld == 5            \* restart: frames of the stream before the restart
MaxNew == 3            \* restart: frames of the stream after the restart
MaxRestartGets == 6    \* restart: get_next calls
MaxFrameSize == 2      \* encoder: frame_size ranges over 1..MaxFrameSize
MaxCodecSize == 2      \* encoder: the codec returns 0..MaxCodecSize bytes
MaxEncodeCalls == 3    \* encoder: encode calls
MaxPayloadBytes == 2   \* wire: short payloads have 1..MaxPayloadBytes bytes
MaxDatagrams == 2      \* wire: datagrams that reach the receiver's socket
MaxSends == 3          \* network: send_audio calls
MaxLoopFrames == 2     \* pipeline: frames the device delivers to the sender loop
MaxFrameLen == 3       \* pipeline: samples per delivered frame range over 1..MaxFrameLen
MaxFeed == 33          \* feed: packets the sender sends on its one track

---------------------------------------------------------------------------
(* Option<T>: None is the empty tuple, Some(x) the one-element tuple *)

None == <<>>
Some(x) == <<x>>
IsSome(o) == o # None
Unwrap(o) == o[1]

---------------------------------------------------------------------------
(* u32 arithmetic on 16-bit limbs *)

Limb == 2^16
U32(h, l) == [hi |-> h, lo |-> l]
U32Of(n) == U32(n \div Limb, n % Limb)          \* a literal 0 <= n < 2^31
U32Max == U32(Limb - 1, Limb - 1)               \* 2^32 - 1

\* u32::wrapping_add(1)
WrappingAdd1(x) ==
    IF x.lo = Limb - 1
    THEN U32((x.hi + 1) % Limb, 0)
    ELSE U32(x.hi, x.lo + 1)

\* a - b modulo 2^32
WrappingSub(a, b) ==
    LET borrow == IF a.lo < b.lo THEN 1 ELSE 0
    IN  U32((a.hi - b.hi - borrow) % Limb, (a.lo - b.lo) % Limb)

\* a + n modulo 2^32, for a small natural n
RECURSIVE WrappingAdd(_, _)
WrappingAdd(x, n) == IF n = 0 THEN x ELSE WrappingAdd(WrappingAdd1(x), n - 1)

\* unsigned a < b
U32Lt(a, b) == a.hi < b.hi \/ (a.hi = b.hi /\ a.lo < b.lo)
U32Le(a, b) == a = b \/ U32Lt(a, b)

\* (x as usize) & mask, for mask = 2^k - 1 with k <= 16
MaskIndex(x, mask) == x.lo % (mask + 1)

\* b is strictly ahead of a modulo 2^32 (by less than half the number circle)
SeqBefore(a, b) ==
    LET d == WrappingSub(b, a) IN d # U32Of(0) /\ d.hi < Limb \div 2

---------------------------------------------------------------------------
(* AudioFrame: the sequence number and the timestamp identify a frame; the *)
(* samples are carried along unchanged and are left out.                   *)

AudioFrame(ts, seq) == [timestamp |-> ts, sequence |-> seq]

---------------------------------------------------------------------------
(* RingBuffer *)

RingNew(capacity) ==
    [queue |-> <<>>, capacity |-> capacity, overflow_count |-> 0, underrun_count |-> 0]

RingLen(rb) == Len(rb.queue)
RingIsEmpty(rb) == Len(rb.queue) = 0
RingIsFull(rb) == Len(rb.queue) = rb.capacity

\* A push that reports success without enqueueing when the queue is full.
RingPushLossy(rb, frame) ==
    IF Len(rb.queue) < rb.capacity
    THEN [rb |-> [rb EXCEPT !.queue = Append(@, frame)], ok |-> TRUE]
    ELSE [rb |-> [rb EXCEPT !.overflow_count = @ + 1], ok |-> TRUE]

\* A push that overwrites the newest frame when the queue is full.
RingPushOverwrite(rb, frame) ==
    IF Len(rb.queue) < rb.capacity
    THEN [rb |-> [rb EXCEPT !.queue = Append(@, frame)], ok |-> TRUE]
    ELSE [rb |-> [rb EXCEPT !.queue = Append(SubSeq(@, 1, Len(@) - 1), frame)],
          ok |-> FALSE]

\* RingBuffer::push: ArrayQueue::push enqueues at the tail unless the queue
\* holds capacity elements; a refusal is counted and reported as false.
RingPush(rb, frame) ==
    IF Len(rb.queue) < rb.capacity
    THEN [rb |-> [rb EXCEPT !.queue = Append(@, frame)], ok |-> TRUE]
    ELSE [rb |-> [rb EXCEPT !.overflow_count = @ + 1], ok |-> FALSE]

\* A pop that takes the newest frame instead of the oldest.
RingPopNewest(rb) ==
    IF Len(rb.queue) > 0
    THEN [rb |-> [rb EXCEPT !.queue = SubSeq(@, 1, Len(@) - 1)],
          out |-> Some(rb.queue[Len(rb.queue)])]
    ELSE [rb |-> [rb EXCEPT !.underrun_count = @ + 1], out |-> None]

\* RingBuffer::pop: ArrayQueue::pop dequeues the head; an empty queue is
\* counted as an underrun.
RingPop(rb) ==
    IF Len(rb.queue) > 0
    THEN [rb |-> [rb EXCEPT !.queue = Tail(@)], out |-> Some(Head(rb.queue))]
    ELSE [rb |-> [rb EXCEPT !.underrun_count = @ + 1], out |-> None]

\* A try_pop that counts the underrun like pop.
RingTryPopCounting(rb) ==
    IF Len(rb.queue) > 0
    THEN [rb |-> [rb EXCEPT !.queue = Tail(@)], out |-> Some(Head(rb.queue))]
    ELSE [rb |-> [rb EXCEPT !.underrun_count = @ + 1], out |-> None]

\* RingBuffer::try_pop: pop without counting the underrun.
RingTryPop(rb) ==
    IF Len(rb.queue) > 0
    THEN [rb |-> [rb EXCEPT !.queue = Tail(@)], out |-> Some(Head(rb.queue))]
    ELSE [rb |-> rb, out |-> None]

\* RingBuffer::reset_stats
RingResetStats(rb) == [rb EXCEPT !.overflow_count = 0, !.underrun_count = 0]

---------------------------------------------------------------------------
(* JitterBuffer *)

\* the value of the jitter variable while no JitterBuffer is under study
JitterIdle == [capacity |-> 0]

\* JitterBuffer::new(capacity, min_delay); capacity is a power of two
JitterNew(capacity, min_delay) ==
    [slots |-> [i \in 0..(capacity - 1) |-> None],
     capacity |-> capacity,
     mask |-> capacity - 1,
     next_sequence |-> U32Of(0),
     min_delay |-> min_delay,
     level |-> 0,
     received |-> 0,
     lost |-> 0,
     late |-> 0]

Occupied(jb) == {i \in DOMAIN jb.slots : IsSome(jb.slots[i])}

\* A late test that takes every sequence below next_sequence as late.
IsLateNoWrap(jb, seq) == U32Lt(seq, jb.next_sequence)

\* the late test of insert: seq < next_sequence and next_sequence - seq <= capacity / 2
IsLate(jb, seq) ==
    /\ U32Lt(seq, jb.next_sequence)
    /\ ~ U32Lt(U32Of(jb.capacity \div 2), WrappingSub(jb.next_sequence, seq))

\* An insert that files frames in arrival order instead of by sequence.
JitterInsertArrivalOrder(jb, frame) ==
    IF IsLate(jb, frame.sequence)
    THEN [jb |-> [jb EXCEPT !.late = @ + 1], ok |-> FALSE]
    ELSE [jb |-> [jb EXCEPT !.slots[jb.received % jb.capacity] = Some(frame),
                            !.received = @ + 1,
                            !.level = @ + 1],
          ok |-> TRUE]

\* An insert that files a late frame in its slot all the same.
JitterInsertLateStored(jb, frame) ==
    IF IsLate(jb, frame.sequence)
    THEN [jb |-> [jb EXCEPT !.slots[MaskIndex(frame.sequence, jb.mask)] = Some(frame),
                            !.late = @ + 1],
          ok |-> FALSE]
    ELSE [jb |-> [jb EXCEPT !.slots[MaskIndex(frame.sequence, jb.mask)] = Some(frame),
                            !.received = @ + 1,
                            !.level = @ + 1],
          ok |-> TRUE]

\* JitterBuffer::insert
JitterInsert(jb, frame) ==
    IF IsLate(jb, frame.sequence)
    THEN [jb |-> [jb EXCEPT !.late = @ + 1], ok |-> FALSE]
    ELSE [jb |-> [jb EXCEPT !.slots[MaskIndex(frame.sequence, jb.mask)] = Some(frame),
                            !.received = @ + 1,
                            !.level = @ + 1],
          ok |-> TRUE]

\* A get_next that does not step over a missing frame.
JitterGetNextStall(jb) ==
    IF jb.level < jb.min_delay
    THEN [jb |-> jb, out |-> None]
    ELSE LET index == MaskIndex(jb.next_sequence, jb.mask)
             frame == jb.slots[index]
         IN  IF IsSome(frame)
             THEN [jb |-> [jb EXCEPT !.slots[index] = None,
                                     !.level = @ - 1,
                                     !.next_sequence = WrappingAdd1(@)],
                   out |-> frame]
             ELSE [jb |-> [jb EXCEPT !.lost = @ + 1], out |-> None]

\* A get_next whose gate also holds back the min_delay-th frame.
JitterGetNextGateLe(jb) ==
    IF jb.level <= jb.min_delay
    THEN [jb |-> jb, out |-> None]
    ELSE LET index == MaskIndex(jb.next_sequence, jb.mask)
             frame == jb.slots[index]
         IN  [jb |-> [jb EXCEPT !.slots[index] = None,
                                 !.level = IF IsSome(frame) THEN @ - 1 ELSE @,
                                 !.lost = IF IsSome(frame) THEN @ ELSE @ + 1,
                                 !.next_sequence = WrappingAdd1(@)],
               out |-> frame]

\* A get_next that takes a missing frame off the level as well.
JitterGetNextLossDec(jb) ==
    IF jb.level < jb.min_delay
    THEN [jb |-> jb, out |-> None]
    ELSE LET index == MaskIndex(jb.next_sequence, jb.mask)
             frame == jb.slots[index]
         IN  [jb |-> [jb EXCEPT !.slots[index] = None,
                                 !.level = IF @ > 0 THEN @ - 1 ELSE 0,
                                 !.lost = IF IsSome(frame) THEN @ ELSE @ + 1,
                                 !.next_sequence = WrappingAdd1(@)],
               out |-> frame]

\* A get_next that counts a loss while it is held back by the gate.
JitterGetNextGateCountsLost(jb) ==
    IF jb.level < jb.min_delay
    THEN [jb |-> [jb EXCEPT !.lost = @ + 1], out |-> None]
    ELSE LET index == MaskIndex(jb.next_sequence, jb.mask)
             frame == jb.slots[index]
         IN  [jb |-> [jb EXCEPT !.slots[index] = None,
                                 !.level = IF IsSome(frame) THEN @ - 1 ELSE @,
                                 !.lost = IF IsSome(frame) THEN @ ELSE @ + 1,
                                 !.next_sequence = WrappingAdd1(@)],
               out |-> frame]

\* JitterBuffer::get_next
JitterGetNext(jb) ==
    IF jb.level < jb.min_delay
    THEN [jb |-> jb, out |-> None]
    ELSE LET index == MaskIndex(jb.next_sequence, jb.mask)
             frame == jb.slots[index]
         IN  [jb |-> [jb EXCEPT !.slots[index] = None,
                                 !.level = IF IsSome(frame) THEN @ - 1 ELSE @,
                                 !.lost = IF IsSome(frame) THEN @ ELSE @ + 1,
                                 !.next_sequence = WrappingAdd1(@)],
               out |-> frame]

\* A force_get_next that does not count a missing frame as lost.
JitterForceGetNextNoLost(jb) ==
    LET index == MaskIndex(jb.next_sequence, jb.mask)
        frame == jb.slots[index]
    IN  [jb |-> [jb EXCEPT !.slots[index] = None,
                            !.level = IF IsSome(frame)
                                      THEN (IF @ > 0 THEN @ - 1 ELSE 0)
                                      ELSE @,
                            !.next_sequence = WrappingAdd1(@)],
          out |-> frame]

\* JitterBuffer::force_get_next: no gate, level saturates at 0
JitterForceGetNext(jb) ==
    LET index == MaskIndex(jb.next_sequence, jb.mask)
        frame == jb.slots[index]
    IN  [jb |-> [jb EXCEPT !.slots[index] = None,
                            !.level = IF IsSome(frame)
                                      THEN (IF @ > 0 THEN @ - 1 ELSE 0)
                                      ELSE @,
                            !.lost = IF IsSome(frame) THEN @ ELSE @ + 1,
                            !.next_sequence = WrappingAdd1(@)],
          out |-> frame]

\* A reset that clears the slots and next_sequence but keeps level.
JitterResetKeepLevel(jb) ==
    [jb EXCEPT !.slots = [i \in DOMAIN jb.slots |-> None],
               !.next_sequence = U32Of(0)]

\* JitterBuffer::reset
JitterReset(jb) ==
    [jb EXCEPT !.slots = [i \in DOMAIN jb.slots |-> None],
               !.next_sequence = U32Of(0),
               !.level = 0]

\* JitterBuffer::set_next_sequence
JitterSetNextSequence(jb, seq) ==
    [JitterReset(jb) EXCEPT !.next_sequence = seq]

\* JitterBuffer::stats
JitterStats(jb) ==
    [level |-> jb.level, capacity |-> jb.capacity, received |-> jb.received,
     lost |-> jb.lost, late |-> jb.late]

\* JitterBufferStats::loss_rate, as the fraction num / den
LossRate(stats) ==
    IF stats.received = 0
    THEN [num |-> 0, den |-> 1]
    ELSE [num |-> stats.lost, den |-> stats.received + stats.lost]

---------------------------------------------------------------------------
(* AudioCapture *)

\* the value of the capture variable while no AudioCapture is under study
CaptureIdle == [pc |-> "none"]

\* capacity of the channel that carries stream errors to the owner
ErrorChannelCap == 16

\* AudioCapture::new.  worker is the position of the worker thread:
\* "none" (no thread), "spawned" (before build_input_stream), "built" (before
\* stream.play), "playing" (in its loop, the stream alive), "exited"
\* (finished, the stream dropped, not yet joined); fault is why it finished
\* early; threads counts the worker threads that have not finished; pc is
\* the owner's position: "idle", "joining" (inside stop) or "dropped".
CaptureNew ==
    [running |-> FALSE,
     sequence |-> U32Of(0),
     samples_captured |-> 0,
     thread_handle |-> FALSE,
     error_rx |-> FALSE,
     errors |-> 0,
     worker |-> "none",
     fault |-> "none",
     threads |-> 0,
     pc |-> "idle"]

\* A start that does not look at the running flag first.
CaptureStartUnguarded(c, device_found, spawn_ok) ==
    IF ~ device_found
    THEN [c |-> c, ok |-> FALSE]
    ELSE LET c1 == [c EXCEPT !.error_rx = TRUE,
                             !.errors = 0,
                             !.sequence = U32Of(0),
                             !.samples_captured = 0,
                             !.running = TRUE]
         IN  IF ~ spawn_ok
             THEN [c |-> c1, ok |-> FALSE]
             ELSE [c |-> [c1 EXCEPT !.thread_handle = TRUE,
                                    !.worker = "spawned",
                                    !.fault = "none",
                                    !.threads = @ + 1],
                   ok |-> TRUE]

\* AudioCapture::start, up to the return: the device lookup, the new error
\* channel, the counters reset, running set and the worker thread spawned.
\* What the worker then does (build_input_stream, play) happens in its own
\* steps below.
CaptureStart(c, device_found, spawn_ok) ==
    IF c.running
    THEN [c |-> c, ok |-> TRUE]
    ELSE IF ~ device_found
    THEN [c |-> c, ok |-> FALSE]
    ELSE LET c1 == [c EXCEPT !.error_rx = TRUE,
                             !.errors = 0,
                             !.sequence = U32Of(0),
                             !.samples_captured = 0,
                             !.running = TRUE]
         IN  IF ~ spawn_ok
             THEN [c |-> c1, ok |-> FALSE]
             ELSE [c |-> [c1 EXCEPT !.thread_handle = TRUE,
                                    !.worker = "spawned",
                                    !.fault = "none",
                                    !.threads = @ + 1],
                   ok |-> TRUE]

\* A stop that clears the flag and detaches the worker instead of joining it.
CaptureStopDetach(c) ==
    [c EXCEPT !.running = FALSE,
              !.thread_handle = FALSE,
              !.pc = "idle"]

\* A stop that joins the worker without clearing the running flag.
CaptureStopNoClear(c) ==
    [c EXCEPT !.thread_handle = FALSE,
              !.pc = IF c.thread_handle THEN "joining" ELSE "idle"]

\* AudioCapture::stop, up to the join: running cleared, the handle taken
CaptureStop(c) ==
    [c EXCEPT !.running = FALSE,
              !.thread_handle = FALSE,
              !.pc = IF c.thread_handle THEN "joining" ELSE "idle"]

\* AudioCapture::stop, the join returning once the worker has finished
CaptureJoin(c) == [c EXCEPT !.worker = "none", !.pc = "idle"]

\* AudioCapture::is_running
IsRunning(c) == c.running

\* AudioCapture::check_errors
CaptureCheckErrors(c) ==
    IF c.error_rx /\ c.errors > 0
    THEN [c |-> [c EXCEPT !.errors = @ - 1], out |-> Some("StreamError")]
    ELSE [c |-> c, out |-> None]

\* the worker thread: build_input_stream
WorkerBuild(c, ok) ==
    IF ok
    THEN [c EXCEPT !.worker = "built"]
    ELSE [c EXCEPT !.worker = "exited", !.fault = "build", !.threads = @ - 1]

\* the worker thread: stream.play
WorkerPlay(c, ok) ==
    IF ok
    THEN [c EXCEPT !.worker = "playing"]
    ELSE [c EXCEPT !.worker = "exited", !.fault = "play", !.threads = @ - 1]

\* the worker thread: one turn of its loop; it leaves (and drops the
\* stream) once it reads running as false
WorkerLoop(c) ==
    IF c.running
    THEN c
    ELSE [c EXCEPT !.worker = "exited", !.threads = @ - 1]

\* the device stream exists and may call back
StreamAlive(c) == c.worker \in {"built", "playing"}

\* An input callback that does not look at the running flag.
InputCallbackNoGuard(c, rb, data_len, now) ==
    LET frame == AudioFrame(now, c.sequence)
        r == RingPush(rb, frame)
    IN  [c |-> [c EXCEPT !.sequence = WrappingAdd1(@),
                         !.samples_captured = @ + data_len],
         rb |-> r.rb,
         pushed |-> IF r.ok THEN Some(frame) ELSE None]

\* An input callback that takes a new sequence number only for a frame the
\* ring accepted.
InputCallbackSeqOnPush(c, rb, data_len, now) ==
    IF ~ c.running
    THEN [c |-> c, rb |-> rb, pushed |-> None]
    ELSE LET frame == AudioFrame(now, c.sequence)
             r == RingPush(rb, frame)
         IN  [c |-> [c EXCEPT !.sequence = IF r.ok THEN WrappingAdd1(@) ELSE @,
                              !.samples_captured = @ + data_len],
              rb |-> r.rb,
              pushed |-> IF r.ok THEN Some(frame) ELSE None]

\* the input callback of the stream
InputCallback(c, rb, data_len, now) ==
    IF ~ c.running
    THEN [c |-> c, rb |-> rb, pushed |-> None]
    ELSE LET frame == AudioFrame(now, c.sequence)
             r == RingPush(rb, frame)
         IN  [c |-> [c EXCEPT !.sequence = WrappingAdd1(@),
                              !.samples_captured = @ + data_len],
              rb |-> r.rb,
              pushed |-> IF r.ok THEN Some(frame) ELSE None]

\* the error callback of the stream: try_send on the bounded channel
ErrorCallback(c) ==
    IF c.errors < ErrorChannelCap
    THEN [c EXCEPT !.errors = @ + 1]
    ELSE c

---------------------------------------------------------------------------
(* OpusEncoder.  The codec inside (opus::Encoder) is stateful: the field   *)
(* encoder counts the encode_float calls it has served, which is all of    *)
(* its state the wrapper can tell apart.                                   *)

\* the value of the encoder variable while no OpusEncoder is under study
EncoderIdle == [pc |-> "none"]

\* OpusEncoder::new
EncoderNew(frame_size, channels) ==
    [encoder |-> 0,
     frame_size |-> frame_size,
     channels |-> channels,
     frames_encoded |-> 0,
     bytes_produced |-> 0]

\* A samples_per_frame that leaves out the channels.
SamplesPerFramePerChannel(enc) == enc.frame_size

\* OpusEncoder::samples_per_frame
SamplesPerFrame(enc) == enc.frame_size * enc.channels

\* An encode that hands the samples to the codec before it checks their number.
EncoderEncodeChecksLate(enc, len, codec) ==
    LET called == [enc EXCEPT !.encoder = @ + 1]
    IN  IF len # enc.frame_size * enc.channels
        THEN [enc |-> called, res |-> [err |-> "InvalidFrameSize", arg |-> len]]
        ELSE IF codec = None
        THEN [enc |-> called, res |-> [err |-> "EncodingFailed", arg |-> 0]]
        ELSE [enc |-> [called EXCEPT !.frames_encoded = @ + 1,
                                     !.bytes_produced = @ + Unwrap(codec)],
              res |-> [err |-> "none", arg |-> Unwrap(codec)]]

\* OpusEncoder::encode on len samples; codec is what encode_float returns,
\* None for an error and Some(size) for size bytes.  The result is the
\* error kind ("none" for Ok) with the length an InvalidFrameSize names or
\* the number of bytes returned.
EncoderEncode(enc, len, codec) ==
    IF len # enc.frame_size * enc.channels
    THEN [enc |-> enc, res |-> [err |-> "InvalidFrameSize", arg |-> len]]
    ELSE LET called == [enc EXCEPT !.encoder = @ + 1]
         IN  IF codec = None
             THEN [enc |-> called, res |-> [err |-> "EncodingFailed", arg |-> 0]]
             ELSE [enc |-> [called EXCEPT !.frames_encoded = @ + 1,
                                          !.bytes_produced = @ + Unwrap(codec)],
                   res |-> [err |-> "none", arg |-> Unwrap(codec)]]

---------------------------------------------------------------------------
(* Wire codec and UDP transport *)

\* the value of sender and receiver while no transport is under study
NetIdle == [pc |-> "none"]

\* size of the fixed packet header in bytes
HeaderSize == 16

\* largest payload a packet may carry, in bytes
MaxPayloadLen == 1200

\* a 16-bit quantity as two bytes, big-endian
BeBytes16(n) == <<n \div 256, n % 256>>

\* the 16-bit quantity two big-endian bytes stand for
BeU16(b1, b2) == b1 * 256 + b2

\* a u32 as four bytes, big-endian
BeBytes32(x) == BeBytes16(x.hi) \o BeBytes16(x.lo)

\* a u64, held as four 16-bit limbs from the most significant down, as eight
\* bytes, big-endian
BeBytes64(t) == BeBytes16(t[1]) \o BeBytes16(t[2]) \o BeBytes16(t[3]) \o BeBytes16(t[4])

\* the flags byte: bit 0 stereo, bit 1 FEC
FlagsByte(is_stereo, is_fec) ==
    (IF is_stereo THEN 1 ELSE 0) + (IF is_fec THEN 2 ELSE 0)

\* the fields of a packet
Packet(track_id, sequence, timestamp, is_stereo, is_fec, payload) ==
    [track_id |-> track_id, sequence |-> sequence, timestamp |-> timestamp,
     is_stereo |-> is_stereo, is_fec |-> is_fec, payload |-> payload]

\* A build that writes the sequence number low half first.
PacketBuildSwapped(p) ==
    IF Len(p.payload) > MaxPayloadLen
    THEN [ok |-> FALSE, datagram |-> <<>>]
    ELSE [ok |-> TRUE,
          datagram |-> <<p.track_id, FlagsByte(p.is_stereo, p.is_fec)>>
                       \o BeBytes16(p.sequence.lo) \o BeBytes16(p.sequence.hi)
                       \o BeBytes64(p.timestamp)
                       \o BeBytes16(Len(p.payload))
                       \o p.payload]

\* Packet build: the 16-byte header, then the payload; an oversize payload
\* fails with PacketTooLarge
PacketBuild(p) ==
    IF Len(p.payload) > MaxPayloadLen
    THEN [ok |-> FALSE, datagram |-> <<>>]
    ELSE [ok |-> TRUE,
          datagram |-> <<p.track_id, FlagsByte(p.is_stereo, p.is_fec)>>
                       \o BeBytes32(p.sequence)
                       \o BeBytes64(p.timestamp)
                       \o BeBytes16(Len(p.payload))
                       \o p.payload]

\* the fields read out of a datagram that has passed the checks of parse
ParsedFields(d) ==
    Packet(d[1],
           U32(BeU16(d[3], d[4]), BeU16(d[5], d[6])),
           <<BeU16(d[7], d[8]), BeU16(d[9], d[10]),
             BeU16(d[11], d[12]), BeU16(d[13], d[14])>>,
           d[2] % 2 = 1,
           (d[2] \div 2) % 2 = 1,
           SubSeq(d, HeaderSize + 1, Len(d)))

\* Packet parse: reject if length < 16, if payload_len + 16 differs from the
\* length, or if a reserved flag bit (2..7) is set
PacketParse(d) ==
    IF Len(d) < HeaderSize THEN None
    ELSE IF BeU16(d[15], d[16]) + HeaderSize # Len(d) THEN None
    ELSE IF d[2] \div 4 # 0 THEN None
    ELSE Some(ParsedFields(d))

\* AudioReceiver as its I/O thread starts
ReceiverNew ==
    [running |-> TRUE, packets_received |-> 0, bytes_received |-> 0,
     invalid_packets |-> 0]

\* one turn of the receiver's I/O thread on the datagram d it received:
\* parse, then enqueue into the global channel or count an invalid packet
ReceiverRecv(rx, ch, d) ==
    LET p == PacketParse(d)
    IN  IF IsSome(p)
        THEN [rx |-> [rx EXCEPT !.packets_received = @ + 1,
                                !.bytes_received = @ + Len(d)],
              ch |-> Append(ch, Unwrap(p))]
        ELSE [rx |-> [rx EXCEPT !.invalid_packets = @ + 1], ch |-> ch]

\* the receiver's stop flag is set and its I/O thread exits
ReceiverStop(rx) == [rx EXCEPT !.running = FALSE]

\* the sender's per-track sequence counters start at start[t]
SenderNew(start) ==
    [sequences |-> start, packets_sent |-> 0, bytes_sent |-> 0, send_dropped |-> 0]

\* A send_audio that advances the track's counter only when the datagram
\* went out.
SenderSendAudioCountsSent(s, track_id, payload, timestamp, stereo, io) ==
    LET p == Packet(track_id, s.sequences[track_id], timestamp, stereo, FALSE, payload)
        b == PacketBuild(p)
    IN  IF ~ b.ok
        THEN [s |-> s, packet |-> None, datagram |-> None, err |-> "PacketTooLarge"]
        ELSE IF io = "sent"
        THEN [s |-> [s EXCEPT !.sequences[track_id] = WrappingAdd1(@),
                              !.packets_sent = @ + 1,
                              !.bytes_sent = @ + Len(b.datagram)],
              packet |-> Some(p), datagram |-> Some(b.datagram), err |-> "none"]
        ELSE IF io = "would_block"
        THEN [s |-> [s EXCEPT !.send_dropped = @ + 1],
              packet |-> Some(p), datagram |-> None, err |-> "none"]
        ELSE [s |-> s, packet |-> Some(p), datagram |-> None, err |-> "SendFailed"]

\* send_audio(track_id, payload, timestamp, stereo): compose the packet with
\* the track's counter, advance the counter, send once on the non-blocking
\* socket.  io is what the socket does: "sent", "would_block" or "error".
SenderSendAudio(s, track_id, payload, timestamp, stereo, io) ==
    LET p == Packet(track_id, s.sequences[track_id], timestamp, stereo, FALSE, payload)
        b == PacketBuild(p)
        s1 == [s EXCEPT !.sequences[track_id] = WrappingAdd1(@)]
    IN  IF ~ b.ok
        THEN [s |-> s, packet |-> None, datagram |-> None, err |-> "PacketTooLarge"]
        ELSE IF io = "sent"
        THEN [s |-> [s1 EXCEPT !.packets_sent = @ + 1,
                               !.bytes_sent = @ + Len(b.datagram)],
              packet |-> Some(p), datagram |-> Some(b.datagram), err |-> "none"]
        ELSE IF io = "would_block"
        THEN [s |-> [s1 EXCEPT !.send_dropped = @ + 1],
              packet |-> Some(p), datagram |-> None, err |-> "none"]
        ELSE [s |-> s1, packet |-> Some(p), datagram |-> None, err |-> "SendFailed"]

\* capacity and min_delay of the jitter buffer the receiver gives each track
TrackJitterCapacity == 32
TrackMinDelay == 2

\* the TrackState the receiver creates on the first packet of a track;
\* playback is the number of frames handed to the track's NetworkPlayback,
\* None when the track has none
TrackStateNew(has_playback) ==
    [jitter_buffer |-> JitterNew(TrackJitterCapacity, TrackMinDelay),
     playback |-> IF has_playback THEN Some(0) ELSE None,
     packets_received |-> 0,
     packets_lost |-> 0]

\* A main loop that sets up a track's pipeline even when its decoder could
\* not be created.
MainProcessAlwaysCreates(ts, packet, decoder_ok, has_playback, decode_ok) ==
    LET track_id == packet.track_id
        known == track_id \in DOMAIN ts
        ts1 == IF known THEN ts
               ELSE (track_id :> TrackStateNew(has_playback)) @@ ts
        st == ts1[track_id]
        frame == AudioFrame(packet.timestamp, packet.sequence)
    IN  IF decode_ok
        THEN [ts1 EXCEPT ![track_id] =
                [st EXCEPT !.packets_received = @ + 1,
                           !.jitter_buffer = JitterInsert(@, frame).jb,
                           !.playback = IF IsSome(@)
                                        THEN Some(Unwrap(@) + 1)
                                        ELSE @]]
        ELSE [ts1 EXCEPT ![track_id] =
                [st EXCEPT !.packets_received = @ + 1,
                           !.packets_lost = @ + 1]]

\* A main loop that hands the frame on even when decode failed.
MainProcessErrorInserts(ts, packet, decoder_ok, has_playback, decode_ok) ==
    LET track_id == packet.track_id
        known == track_id \in DOMAIN ts
    IN  IF ~ known /\ ~ decoder_ok
        THEN ts
        ELSE LET ts1 == IF known THEN ts
                        ELSE (track_id :> TrackStateNew(has_playback)) @@ ts
                 st == ts1[track_id]
                 frame == AudioFrame(packet.timestamp, packet.sequence)
                 fed == [st EXCEPT !.packets_received = @ + 1,
                                   !.jitter_buffer = JitterInsert(@, frame).jb,
                                   !.playback = IF IsSome(@)
                                                THEN Some(Unwrap(@) + 1)
                                                ELSE @]
             IN  IF decode_ok
                 THEN [ts1 EXCEPT ![track_id] = fed]
                 ELSE [ts1 EXCEPT ![track_id] =
                         [fed EXCEPT !.packets_lost = @ + 1]]

\* the receiver's main loop on one packet taken from the channel:
\* decoder_ok is whether OpusDecoder::new succeeds (asked only for a new
\* track), has_playback whether the track gets a playback, decode_ok whether
\* decode succeeds
MainProcess(ts, packet, decoder_ok, has_playback, decode_ok) ==
    LET track_id == packet.track_id
        known == track_id \in DOMAIN ts
    IN  IF ~ known /\ ~ decoder_ok
        THEN ts
        ELSE LET ts1 == IF known THEN ts
                        ELSE (track_id :> TrackStateNew(has_playback)) @@ ts
                 st == ts1[track_id]
                 frame == AudioFrame(packet.timestamp, packet.sequence)
             IN  IF decode_ok
                 THEN [ts1 EXCEPT ![track_id] =
                         [st EXCEPT !.packets_received = @ + 1,
                                    !.jitter_buffer = JitterInsert(@, frame).jb,
                                    !.playback = IF IsSome(@)
                                                 THEN Some(Unwrap(@) + 1)
                                                 ELSE @]]
                 ELSE [ts1 EXCEPT ![track_id] =
                         [st EXCEPT !.packets_received = @ + 1,
                                    !.packets_lost = @ + 1]]

\* the line the periodic statistics print for a track
TrackReport(st) ==
    LET jitter_stats == JitterStats(st.jitter_buffer)
    IN  [received |-> st.packets_received,
         lost |-> st.packets_lost,
         loss_rate |-> LossRate(jitter_stats),
         level |-> jitter_stats.level,
         capacity |-> jitter_stats.capacity]

---------------------------------------------------------------------------
(* The sender's main loop *)

\* the value of senderLoop while no sender loop is under study
LoopIdle == [pc |-> "none"]

\* the track the sender creates for the default input device
LoopTrackId == 0

\* a captured frame with its samples; each sample is the number of its
\* place in the stream the device delivered
SampleFrame(samples, ts, seq) ==
    [samples |-> samples, timestamp |-> ts, sequence |-> seq]

\* the loop's locals as the loop begins
SenderLoopNew == [sample_buffer |-> <<>>, sequence |-> U32Of(0)]

\* the inner loop, `while sample_buffer.len() >= frame_size`, on the state
\* st: lp (the locals), enc (the encoder), snd (the network sender), out
\* (the datagrams that left the socket), blocks (the slices given to encode)
\* and results (how each fared).  outcomes[i] tells what the codec and the
\* socket do for the i-th block.
RECURSIVE SenderLoopEncode(_, _, _)
SenderLoopEncode(st, outcomes, i) ==
    LET frame_size == SamplesPerFrame(st.enc)
        buf == st.lp.sample_buffer
    IN  IF Len(buf) < frame_size
        THEN st
        ELSE LET samples == SubSeq(buf, 1, frame_size)
                 e == EncoderEncode(st.enc, Len(samples), outcomes[i].codec)
                 st1 == [st EXCEPT
                           !.lp.sample_buffer = SubSeq(buf, frame_size + 1, Len(buf)),
                           !.enc = e.enc,
                           !.blocks = Append(@, samples)]
             IN  IF e.res.err # "none"
                 THEN SenderLoopEncode(
                          [st1 EXCEPT !.results = Append(@, "encode_error")],
                          outcomes, i + 1)
                 ELSE LET payload == [k \in 1..e.res.arg |-> 7]
                          timestamp == <<0, 0, 0, st.enc.encoder>>
                          s == SenderSendAudio(st.snd, LoopTrackId, payload,
                                               timestamp, TRUE, outcomes[i].io)
                      IN  SenderLoopEncode(
                              [st1 EXCEPT
                                 !.snd = s.s,
                                 !.lp.sequence = WrappingAdd1(@),
                                 !.out = IF IsSome(s.datagram)
                                         THEN Append(@, Unwrap(s.datagram))
                                         ELSE @,
                                 !.results = Append(@, IF s.err = "none"
                                                       THEN "ok"
                                                       ELSE "send_error")],
                              outcomes, i + 1)

\* the body of `while let Some(frame) = capture_buffer.try_pop()` for the
\* popped frame: extend sample_buffer, then encode and send every complete
\* block
SenderLoopBody(lp, enc, snd, frame, outcomes) ==
    SenderLoopEncode([lp |-> [lp EXCEPT !.sample_buffer = @ \o frame.samples],
                      enc |-> enc,
                      snd |-> snd,
                      out |-> <<>>,
                      blocks |-> <<>>,
                      results |-> <<>>],
                     outcomes, 1)

---------------------------------------------------------------------------
(* The ring under one producer and one consumer.  Each call is one atomic  *)
(* step: ArrayQueue's push and pop are linearizable, and each counter is   *)
(* touched by one side only.  The producer stamps each frame it offers     *)
(* with the number of the offer, so that every offered frame is distinct.  *)

RingInit ==
    /\ ring = RingNew(RingCapacity)
    /\ ringRet = [op |-> "new", ok |-> TRUE, out |-> None, before |-> <<>>]
    /\ pushed = <<>>
    /\ popped = <<>>
    /\ jitter = JitterIdle
    /\ jitterRet = [op |-> "none"]
    /\ lastOut = None
    /\ anchor = U32Of(0)
    /\ arrivals = <<>>
    /\ inserted = 0
    /\ outputs = <<>>
    /\ capture = CaptureIdle
    /\ captureRet = [op |-> "none"]
    /\ captureHist = [calls |-> 0]
    /\ encoder = EncoderIdle
    /\ encoderRet = [op |-> "none"]
    /\ sender = NetIdle
    /\ senderRet = [op |-> "none"]
    /\ wire = <<>>
    /\ receiver = NetIdle
    /\ channel = <<>>
    /\ trackStates = <<>>
    /\ netHist = [sends |-> 0]
    /\ senderLoop = LoopIdle
    /\ loopHist = [pops |-> 0]
    /\ ops = 0

\* the producer calls push(frame)
ProducerPush ==
    /\ ops < MaxRingOps
    /\ \E seq \in 0..1 :
         LET frame == AudioFrame(ops, U32Of(seq))
             r == RingPush(ring, frame)
         IN  /\ ring' = r.rb
             /\ ringRet' = [op |-> "push", ok |-> r.ok, out |-> Some(frame),
                            before |-> ring.queue]
             /\ pushed' = IF r.ok THEN Append(pushed, frame) ELSE pushed
    /\ ops' = ops + 1
    /\ UNCHANGED <<popped, jitterVars, scenarioVars, captureVars,
                 codecVars, netVars, loopVars>>

\* the consumer calls pop()
ConsumerPop ==
    /\ ops < MaxRingOps
    /\ LET r == RingPop(ring)
       IN  /\ ring' = r.rb
           /\ ringRet' = [op |-> "pop", ok |-> IsSome(r.out), out |-> r.out,
                          before |-> ring.queue]
           /\ popped' = IF IsSome(r.out) THEN Append(popped, Unwrap(r.out)) ELSE popped
    /\ ops' = ops + 1
    /\ UNCHANGED <<pushed, jitterVars, scenarioVars, captureVars,
                 codecVars, netVars, loopVars>>

\* the consumer calls try_pop()
ConsumerTryPop ==
    /\ ops < MaxRingOps
    /\ LET r == RingTryPop(ring)
       IN  /\ ring' = r.rb
           /\ ringRet' = [op |-> "try_pop", ok |-> IsSome(r.out), out |-> r.out,
                          before |-> ring.queue]
           /\ popped' = IF IsSome(r.out) THEN Append(popped, Unwrap(r.out)) ELSE popped
    /\ ops' = ops + 1
    /\ UNCHANGED <<pushed, jitterVars, scenarioVars, captureVars,
                 codecVars, netVars, loopVars>>

\* the statistics are reset
StatsReset ==
    /\ ops < MaxRingOps
    /\ ring' = RingResetStats(ring)
    /\ ringRet' = [op |-> "reset_stats", ok |-> TRUE, out |-> None,
                   before |-> ring.queue]
    /\ ops' = ops + 1
    /\ UNCHANGED <<pushed, popped, jitterVars, scenarioVars, captureVars,
                 codecVars, netVars, loopVars>>

RingNext == ProducerPush \/ ConsumerPop \/ ConsumerTryPop \/ StatsReset

SpecRing == RingInit /\ [][RingNext]_vars

---------------------------------------------------------------------------
(* Claims about the RingBuffer *)

IsPrefix(s, t) == Len(s) <= Len(t) /\ SubSeq(t, 1, Len(s)) = s

\* C1: under every interleaving of one producer and one consumer, the frames
\* the consumer received are a prefix of the frames whose push returned true,
\* in the same order; the frames still queued are exactly the rest.
C1_FifoPrefix ==
    /\ IsPrefix(popped, pushed)
    /\ popped \o ring.queue = pushed

C1_Witness ==
    /\ Len(popped) >= 2
    /\ Len(pushed) > Len(popped)
    /\ ring.overflow_count >= 1

\* C2: 0 <= len <= capacity in every state; push returns false iff the ring
\* was full before the call; a refused push leaves the queue unchanged.
C2_Capacity ==
    /\ RingLen(ring) >= 0
    /\ RingLen(ring) <= ring.capacity
    /\ ringRet.op = "push" =>
         /\ (ringRet.ok = FALSE) <=> (Len(ringRet.before) = ring.capacity)
         /\ ringRet.ok = FALSE => ring.queue = ringRet.before

C2_Witness ==
    /\ ringRet.op = "push"
    /\ ringRet.ok = FALSE
    /\ RingLen(ring) = ring.capacity

\* C15: pop and try_pop return None iff the ring was empty before the call;
\* otherwise they return the oldest queued frame and take exactly that one
\* frame off the queue.
C15_PopOldest ==
    ringRet.op \in {"pop", "try_pop"} =>
        /\ (ringRet.out = None) <=> (ringRet.before = <<>>)
        /\ ringRet.before # <<>> =>
             /\ ringRet.out = Some(Head(ringRet.before))
             /\ ring.queue = Tail(ringRet.before)
             /\ RingLen(ring) = Len(ringRet.before) - 1

\* a try_pop took the older of two queued frames
C15_Witness ==
    /\ ringRet.op = "try_pop"
    /\ Len(ringRet.before) = 2
    /\ ringRet.out = Some(ringRet.before[1])
    /\ ringRet.before[1] # ringRet.before[2]

\* C16: overflow_count grows by exactly one on each push that returns false
\* and on no other call; underrun_count grows by exactly one on each pop that
\* returns None and on no other call, so a try_pop on an empty ring leaves
\* the ring unchanged; reset_stats sets both counters to 0 and leaves the
\* queued frames alone.
C16_Counters ==
    [][/\ ringRet'.op # "reset_stats" =>
            /\ ring'.overflow_count =
                 ring.overflow_count
                   + (IF ringRet'.op = "push" /\ ~ ringRet'.ok THEN 1 ELSE 0)
            /\ ring'.underrun_count =
                 ring.underrun_count
                   + (IF ringRet'.op = "pop" /\ ringRet'.out = None THEN 1 ELSE 0)
       /\ (ringRet'.op = "try_pop" /\ ringRet'.out = None) => ring' = ring
       /\ ringRet'.op = "reset_stats" =>
            /\ ring'.overflow_count = 0
            /\ ring'.underrun_count = 0
            /\ ring'.queue = ring.queue]_vars

\* after refused pushes were counted and the statistics reset, a try_pop on
\* the drained ring returned None and counted nothing
C16_Witness ==
    /\ ringRet.op = "try_pop"
    /\ ringRet.out = None
    /\ ring.underrun_count = 0
    /\ ring.overflow_count = 0
    /\ Len(popped) = RingCapacity
    /\ Len(pushed) = RingCapacity
    /\ ops = MaxRingOps

---------------------------------------------------------------------------
(* The JitterBuffer under any schedule of its operations.  One owner calls *)
(* it (&mut self), so each call is one step.  Each inserted frame is       *)
(* stamped with the number of the call that inserts it.                    *)

\* sequences offered to insert: the first ones and the last two of u32
InsertSeqs ==
    {U32Of(n) : n \in 0..MaxSeq} \cup {U32Max, WrappingSub(U32Max, U32Of(1))}

\* sequences given to set_next_sequence
SyncSeqs == {U32Of(1), U32Max}

JitterInit ==
    /\ ring = RingNew(0)
    /\ ringRet = [op |-> "none"]
    /\ pushed = <<>>
    /\ popped = <<>>
    /\ \E min_delay \in 0..MaxMinDelay : jitter = JitterNew(2^CapBits, min_delay)
    /\ jitterRet = [op |-> "new", arg |-> None, ok |-> TRUE, out |-> None]
    /\ lastOut = None
    /\ anchor = U32Of(0)
    /\ arrivals = <<>>
    /\ inserted = 0
    /\ outputs = <<>>
    /\ capture = CaptureIdle
    /\ captureRet = [op |-> "none"]
    /\ captureHist = [calls |-> 0]
    /\ encoder = EncoderIdle
    /\ encoderRet = [op |-> "none"]
    /\ sender = NetIdle
    /\ senderRet = [op |-> "none"]
    /\ wire = <<>>
    /\ receiver = NetIdle
    /\ channel = <<>>
    /\ trackStates = <<>>
    /\ netHist = [sends |-> 0]
    /\ senderLoop = LoopIdle
    /\ loopHist = [pops |-> 0]
    /\ ops = 0

JInsert ==
    /\ ops < MaxJitterOps
    /\ \E seq \in InsertSeqs :
         LET frame == AudioFrame(ops, seq)
             r == JitterInsert(jitter, frame)
         IN  /\ jitter' = r.jb
             /\ jitterRet' = [op |-> "insert", arg |-> Some(frame), ok |-> r.ok,
                              out |-> None]
    /\ ops' = ops + 1
    /\ UNCHANGED <<lastOut, ringVars, scenarioVars, captureVars,
                 codecVars, netVars, loopVars>>

JGetNext ==
    /\ ops < MaxJitterOps
    /\ LET r == JitterGetNext(jitter)
       IN  /\ jitter' = r.jb
           /\ jitterRet' = [op |-> "get_next", arg |-> None, ok |-> IsSome(r.out),
                            out |-> r.out]
           /\ lastOut' = IF IsSome(r.out) THEN r.out ELSE lastOut
    /\ ops' = ops + 1
    /\ UNCHANGED <<ringVars, scenarioVars, captureVars, codecVars, netVars, loopVars>>

JForceGetNext ==
    /\ ops < MaxJitterOps
    /\ LET r == JitterForceGetNext(jitter)
       IN  /\ jitter' = r.jb
           /\ jitterRet' = [op |-> "force_get_next", arg |-> None, ok |-> IsSome(r.out),
                            out |-> r.out]
    /\ ops' = ops + 1
    /\ UNCHANGED <<lastOut, ringVars, scenarioVars, captureVars,
                 codecVars, netVars, loopVars>>

JReset ==
    /\ ops < MaxJitterOps
    /\ jitter' = JitterReset(jitter)
    /\ jitterRet' = [op |-> "reset", arg |-> None, ok |-> TRUE, out |-> None]
    /\ lastOut' = None
    /\ ops' = ops + 1
    /\ UNCHANGED <<ringVars, scenarioVars, captureVars, codecVars, netVars, loopVars>>

JSetNextSequence ==
    /\ ops < MaxJitterOps
    /\ \E seq \in SyncSeqs :
         /\ jitter' = JitterSetNextSequence(jitter, seq)
         /\ jitterRet' = [op |-> "set_next_sequence", arg |-> Some(seq), ok |-> TRUE,
                          out |-> None]
    /\ lastOut' = None
    /\ ops' = ops + 1
    /\ UNCHANGED <<ringVars, scenarioVars, captureVars, codecVars, netVars, loopVars>>

JitterNext == JInsert \/ JGetNext \/ JForceGetNext \/ JReset \/ JSetNextSequence

SpecJitter == JitterInit /\ [][JitterNext]_vars

---------------------------------------------------------------------------
(* Claims about the JitterBuffer under any schedule *)

\* C3: with no reset in between, successive frames returned by get_next carry
\* strictly increasing sequence numbers modulo 2^32.
C3_MonotonicOutput ==
    [][(/\ jitterRet'.op = "get_next"
        /\ IsSome(jitterRet'.out)
        /\ IsSome(lastOut))
       => SeqBefore(Unwrap(lastOut).sequence, Unwrap(jitterRet'.out).sequence)]_vars

\* C4: after every operation, level equals the number of occupied slots.
C4_LevelIsOccupancy == jitter.level = Cardinality(Occupied(jitter))

\* C5: a frame returned by get_next or force_get_next carries the sequence
\* number next_sequence had immediately before the call.
C5_ReturnsNextSequence ==
    [][(/\ jitterRet'.op \in {"get_next", "force_get_next"}
        /\ IsSome(jitterRet'.out))
       => Unwrap(jitterRet'.out).sequence = jitter.next_sequence]_vars

\* C6: with d = (next_sequence - seq) mod 2^32, insert rejects every frame
\* with 1 <= d <= C/2 (false, late + 1) and accepts every frame with d > C/2.
C6_WrapAwareLate ==
    [][jitterRet'.op = "insert" =>
        LET d == WrappingSub(jitter.next_sequence, Unwrap(jitterRet'.arg).sequence)
            half == U32Of(jitter.capacity \div 2)
        IN  /\ (U32Le(U32Of(1), d) /\ U32Le(d, half)) =>
                  (jitterRet'.ok = FALSE /\ jitter'.late = jitter.late + 1)
            /\ U32Lt(half, d) => jitterRet'.ok = TRUE]_vars

\* C7: every force_get_next, and every get_next that passes the min_delay
\* gate, advances next_sequence by exactly one modulo 2^32, frame or no frame;
\* a gated get_next and insert leave it alone; reset sets it to 0 and
\* set_next_sequence to its argument.
C7_NextSequenceSteps ==
    [][/\ jitterRet'.op = "force_get_next" =>
            jitter'.next_sequence = WrappingAdd1(jitter.next_sequence)
       /\ (jitterRet'.op = "get_next" /\ jitter.level >= jitter.min_delay) =>
            jitter'.next_sequence = WrappingAdd1(jitter.next_sequence)
       /\ (jitterRet'.op = "get_next" /\ jitter.level < jitter.min_delay) =>
            jitter'.next_sequence = jitter.next_sequence
       /\ jitterRet'.op = "insert" =>
            jitter'.next_sequence = jitter.next_sequence
       /\ jitterRet'.op = "reset" => jitter'.next_sequence = U32Of(0)
       /\ jitterRet'.op = "set_next_sequence" =>
            jitter'.next_sequence = Unwrap(jitterRet'.arg)]_vars

\* a get_next passed the gate on an empty slot at the top of u32 and wrapped
C7_Witness ==
    /\ jitterRet.op = "get_next"
    /\ jitterRet.out = None
    /\ jitter.lost >= 1
    /\ jitter.next_sequence = U32Of(0)
    /\ jitter.received >= 1

\* C12: in every reachable state with level >= min_delay, force_get_next and
\* get_next return the same result and leave the same buffer (slots, level,
\* next_sequence, received, lost, late); the decrement of get_next never
\* meets level 0, where the two would part.
C12_ForceEqualsGet ==
    /\ jitter.level >= jitter.min_delay =>
         JitterForceGetNext(jitter) = JitterGetNext(jitter)
    /\ IsSome(jitter.slots[MaskIndex(jitter.next_sequence, jitter.mask)]) =>
         jitter.level >= 1

\* a force_get_next has just returned a frame and another frame is due
C12_Witness ==
    /\ jitterRet.op = "force_get_next"
    /\ IsSome(jitterRet.out)
    /\ jitter.level >= jitter.min_delay
    /\ jitter.min_delay >= 1
    /\ IsSome(jitter.slots[MaskIndex(jitter.next_sequence, jitter.mask)])

\* C13: after reset every slot is empty, level is 0 and next_sequence is 0;
\* after set_next_sequence(s) every slot is empty, level is 0 and
\* next_sequence is s.
C13_ResetState ==
    /\ jitterRet.op = "reset" =>
         /\ Occupied(jitter) = {}
         /\ jitter.level = 0
         /\ jitter.next_sequence = U32Of(0)
    /\ jitterRet.op = "set_next_sequence" =>
         /\ Occupied(jitter) = {}
         /\ jitter.level = 0
         /\ jitter.next_sequence = Unwrap(jitterRet.arg)

\* a reset right after two accepted frames and a pull
C13_Witness ==
    /\ jitterRet.op = "reset"
    /\ jitter.received = 2
    /\ jitter.next_sequence = U32Of(0)
    /\ ops = 4

\* C26: an accepted insert whose slot (seq & mask) already holds a frame, a
\* duplicate or a frame C sequences away, replaces the stored frame and leaves
\* level unchanged.
C26_OverwriteKeepsLevel ==
    [][(/\ jitterRet'.op = "insert"
        /\ jitterRet'.ok
        /\ IsSome(jitter.slots[MaskIndex(Unwrap(jitterRet'.arg).sequence, jitter.mask)]))
       => /\ jitter'.slots[MaskIndex(Unwrap(jitterRet'.arg).sequence, jitter.mask)]
               = jitterRet'.arg
          /\ jitter'.level = jitter.level]_vars

\* C27: a get_next called with level < min_delay returns None and leaves the
\* whole buffer as it was: next_sequence, slots, level, received, lost, late.
C27_GatedGetNext ==
    [][(jitterRet'.op = "get_next" /\ jitter.level < jitter.min_delay)
       => /\ jitterRet'.out = None
          /\ jitter' = jitter]_vars

\* a get_next was held back with a frame waiting in the slot of next_sequence
C27_Witness ==
    /\ jitterRet.op = "get_next"
    /\ jitterRet.out = None
    /\ jitter.level < jitter.min_delay
    /\ jitter.level >= 1
    /\ IsSome(jitter.slots[MaskIndex(jitter.next_sequence, jitter.mask)])
    /\ jitter.lost = 0

\* the example of the late insert: sequence 3 offered to a buffer of capacity 16
\* whose next_sequence is 10
LateExample ==
    LET jb == JitterSetNextSequence(JitterNew(16, 2), U32Of(10))
        r == JitterInsert(jb, AudioFrame(0, U32Of(3)))
    IN  /\ r.ok = FALSE
        /\ r.jb = [jb EXCEPT !.late = 1]

\* C28: an insert that returns false (rejected as late) adds exactly one to
\* late and leaves slots, level, received, lost and next_sequence unchanged;
\* sequence 3 against next_sequence 10 in a capacity-16 buffer is such an insert.
C28_LateInsert ==
    [][/\ (jitterRet'.op = "insert" /\ ~ jitterRet'.ok)
          => jitter' = [jitter EXCEPT !.late = @ + 1]
       /\ LateExample]_vars

\* a frame was rejected as late while another frame sat in the very slot the
\* late one maps to
C28_Witness ==
    /\ jitterRet.op = "insert"
    /\ ~ jitterRet.ok
    /\ jitter.late = 1
    /\ IsSome(jitter.slots[MaskIndex(Unwrap(jitterRet.arg).sequence, jitter.mask)])
    /\ jitter.level >= 1

\* C29: every occupied slot i holds a frame whose sequence & mask is i.
C29_SlotOfSequence ==
    \A i \in Occupied(jitter) :
        MaskIndex(Unwrap(jitter.slots[i]).sequence, jitter.mask) = i

\* frames from both ends of u32 sit in their slots, one of them stored over an
\* earlier frame of the same slot
C29_Witness ==
    /\ Cardinality(Occupied(jitter)) >= 2
    /\ jitter.level > Cardinality(Occupied(jitter))
    /\ \E i \in Occupied(jitter) : Unwrap(jitter.slots[i]).sequence = U32Max

\* C14: whenever received + lost > 0, the reported loss rate equals
\* lost / (received + lost); it is non-zero whenever lost > 0.
C14_LossRate ==
    LET stats == JitterStats(jitter)
        rate == LossRate(stats)
    IN  stats.received + stats.lost > 0 =>
          /\ rate.num * (stats.received + stats.lost) = stats.lost * rate.den
          /\ stats.lost > 0 => rate.num > 0

---------------------------------------------------------------------------
(* Arrival scenarios: a stream that starts at sequence `anchor` delivers   *)
(* the sequences of `arrivals` in that order into a JitterBuffer as the    *)
(* tests build it; once all have arrived the consumer calls get_next.      *)

ScenarioCapacity == 16

\* the arrival order 0, 1, ..., 7
InOrder == [i \in 1..8 |-> i - 1]

\* arrival orders as offsets from the first sequence of the stream
OffsetOrders ==
    UNION {[1..n -> 0..MaxOffset] : n \in 1..MaxArrivals} \cup {InOrder}

ScenarioAnchors == {U32Of(0), WrappingSub(U32Max, U32Of(1))}

\* the frame that arrives i-th
Arrival(i) == AudioFrame(i - 1, arrivals[i])

ScenarioInit ==
    /\ ring = RingNew(0)
    /\ ringRet = [op |-> "none"]
    /\ pushed = <<>>
    /\ popped = <<>>
    /\ \E min_delay \in 1..MaxMinDelay : jitter = JitterNew(ScenarioCapacity, min_delay)
    /\ jitterRet = [op |-> "new", arg |-> None, ok |-> TRUE, out |-> None]
    /\ lastOut = None
    /\ anchor \in ScenarioAnchors
    /\ \E order \in OffsetOrders :
         arrivals = [i \in 1..Len(order) |-> WrappingAdd(anchor, order[i])]
    /\ inserted = 0
    /\ outputs = <<>>
    /\ capture = CaptureIdle
    /\ captureRet = [op |-> "none"]
    /\ captureHist = [calls |-> 0]
    /\ encoder = EncoderIdle
    /\ encoderRet = [op |-> "none"]
    /\ sender = NetIdle
    /\ senderRet = [op |-> "none"]
    /\ wire = <<>>
    /\ receiver = NetIdle
    /\ channel = <<>>
    /\ trackStates = <<>>
    /\ netHist = [sends |-> 0]
    /\ senderLoop = LoopIdle
    /\ loopHist = [pops |-> 0]
    /\ ops = 0

Synced == anchor = U32Of(0) \/ jitterRet.op # "new"

\* the receiver anchors the buffer at the first sequence of the stream
ScSync ==
    /\ ~ Synced
    /\ jitter' = JitterSetNextSequence(jitter, anchor)
    /\ jitterRet' = [op |-> "set_next_sequence", arg |-> Some(anchor), ok |-> TRUE,
                     out |-> None]
    /\ ops' = ops + 1
    /\ UNCHANGED <<lastOut, ringVars, scenarioVars, captureVars,
                 codecVars, netVars, loopVars>>

\* the next frame arrives
ScInsert ==
    /\ Synced
    /\ inserted < Len(arrivals)
    /\ LET frame == Arrival(inserted + 1)
           r == JitterInsert(jitter, frame)
       IN  /\ jitter' = r.jb
           /\ jitterRet' = [op |-> "insert", arg |-> Some(frame), ok |-> r.ok,
                            out |-> None]
    /\ inserted' = inserted + 1
    /\ ops' = ops + 1
    /\ UNCHANGED <<lastOut, ringVars, anchor, arrivals, outputs, captureVars,
                 codecVars, netVars, loopVars>>

\* the consumer pulls once all frames have arrived
ScGetNext ==
    /\ Synced
    /\ inserted = Len(arrivals)
    /\ Len(outputs) < Len(arrivals) + ExtraGets
    /\ LET r == JitterGetNext(jitter)
       IN  /\ jitter' = r.jb
           /\ jitterRet' = [op |-> "get_next", arg |-> None, ok |-> IsSome(r.out),
                            out |-> r.out]
           /\ lastOut' = IF IsSome(r.out) THEN r.out ELSE lastOut
           /\ outputs' = Append(outputs, r.out)
    /\ ops' = ops + 1
    /\ UNCHANGED <<ringVars, anchor, arrivals, inserted, captureVars,
                 codecVars, netVars, loopVars>>

ScenarioNext == ScSync \/ ScInsert \/ ScGetNext

SpecScenario == ScenarioInit /\ [][ScenarioNext]_vars

---------------------------------------------------------------------------
(* Claims about arrival scenarios *)

\* the arrivals are a permutation of the n consecutive sequences from anchor
ConsecutivePermutation ==
    LET n == Len(arrivals)
    IN  /\ n <= jitter.capacity
        /\ {arrivals[i] : i \in 1..n} = {WrappingAdd(anchor, k) : k \in 0..(n - 1)}
        /\ Cardinality({arrivals[i] : i \in 1..n}) = n

\* the frame with sequence anchor + k among the arrivals
ArrivedAt(k) ==
    Arrival(CHOOSE i \in 1..Len(arrivals) : arrivals[i] = WrappingAdd(anchor, k))

\* C8: frames that arrive as any permutation of consecutive sequences
\* starting at next_sequence are all accepted; get_next then returns them in
\* ascending sequence order from next_sequence on, returns None as soon as
\* fewer than min_delay frames remain buffered, and late and lost stay 0.
C8_Reordered ==
    ConsecutivePermutation =>
        /\ jitter.late = 0
        /\ jitter.lost = 0
        /\ jitter.received = inserted
        /\ \A i \in 1..Len(outputs) :
             outputs[i] = IF Len(arrivals) - (i - 1) >= jitter.min_delay
                          THEN Some(ArrivedAt(i - 1))
                          ELSE None

\* arrival order [2, 0, 1] with min_delay 2: frames 0 and 1 came out, then None
C8_Witness ==
    /\ anchor = U32Of(0)
    /\ arrivals = <<U32Of(2), U32Of(0), U32Of(1)>>
    /\ jitter.min_delay = 2
    /\ outputs = <<Some(AudioFrame(1, U32Of(0))), Some(AudioFrame(2, U32Of(1))), None>>

InOrderScenario ==
    /\ anchor = U32Of(0)
    /\ arrivals = [i \in 1..8 |-> U32Of(i - 1)]
    /\ jitter.capacity = 16
    /\ jitter.min_delay = 2

\* C9 as claimed: after frames 0..7 arrived in order (capacity 16,
\* min_delay 2) the first eight get_next calls return frames 0 to 7 in order,
\* the call after that returns None, and lost stays 0.
C9_AllEightReturned ==
    InOrderScenario =>
        /\ jitter.lost = 0
        /\ \A i \in 1..Len(outputs) :
             outputs[i] = IF i <= 8 THEN Some(Arrival(i)) ELSE None

\* C9 as amended: the first seven get_next calls return frames 0 to 6 in
\* order; the eighth and every later call returns None because level (1) is
\* below min_delay (2); frame 7 stays buffered and lost stays 0.
C9_SevenReturned ==
    InOrderScenario =>
        /\ jitter.lost = 0
        /\ \A i \in 1..Len(outputs) :
             outputs[i] = IF i <= 7 THEN Some(Arrival(i)) ELSE None
        /\ Len(outputs) >= 7 =>
             /\ jitter.level = 1
             /\ jitter.slots[7] = Some(Arrival(8))

C9_Witness ==
    /\ InOrderScenario
    /\ Len(outputs) = 9
    /\ outputs[7] = Some(AudioFrame(6, U32Of(6)))
    /\ outputs[8] = None
    /\ outputs[9] = None

LossScenario ==
    /\ anchor = U32Of(0)
    /\ arrivals = <<U32Of(0), U32Of(2), U32Of(3)>>
    /\ jitter.min_delay = 1

\* C10: a get_next that passes the min_delay gate on an empty slot returns
\* None, adds exactly one to lost, advances next_sequence and changes nothing
\* else; after arrivals [0, 2, 3] with min_delay 1 the get_next calls yield
\* frame 0, None (lost = 1), frame 2, frame 3.
C10_LossSkipped ==
    /\ [][(/\ jitterRet'.op = "get_next"
            /\ jitter.level >= jitter.min_delay
            /\ jitter.slots[MaskIndex(jitter.next_sequence, jitter.mask)] = None)
           => /\ jitterRet'.out = None
              /\ jitter' = [jitter EXCEPT !.lost = @ + 1,
                                           !.next_sequence = WrappingAdd1(@)]]_vars
    /\ [](LossScenario =>
            /\ \A i \in 1..Len(outputs) :
                 outputs[i] = IF i \in {1, 3, 4} THEN Some(Arrival(i - (IF i = 1 THEN 0 ELSE 1)))
                              ELSE None
            /\ jitter.lost = IF Len(outputs) >= 2 THEN 1 ELSE 0)

C10_Witness ==
    /\ LossScenario
    /\ outputs = <<Some(AudioFrame(0, U32Of(0))), None,
                   Some(AudioFrame(1, U32Of(2))), Some(AudioFrame(2, U32Of(3)))>>
    /\ jitter.lost = 1
    /\ jitter.level = 0

WrapScenario ==
    /\ anchor = WrappingSub(U32Max, U32Of(1))
    /\ arrivals = <<WrappingSub(U32Max, U32Of(1)), U32Max, U32Of(0), U32Of(1)>>

\* C11: after set_next_sequence(2^32 - 2), the frames 2^32-2, 2^32-1, 0, 1
\* are all accepted (late stays 0, nothing is counted lost) and the get_next
\* calls return them in exactly that order, each while at least min_delay
\* frames are buffered.
C11_WrapOrder ==
    WrapScenario =>
        /\ jitter.late = 0
        /\ jitter.lost = 0
        /\ jitter.received = inserted
        /\ jitterRet.op = "insert" => jitterRet.ok
        /\ \A i \in 1..Len(outputs) :
             outputs[i] = IF Len(arrivals) - (i - 1) >= jitter.min_delay
                          THEN Some(Arrival(i))
                          ELSE None

\* min_delay 1: all four frames came out, across the wrap
C11_Witness ==
    /\ WrapScenario
    /\ jitter.min_delay = 1
    /\ Len(outputs) = 4
    /\ outputs[2] = Some(AudioFrame(1, U32Max))
    /\ outputs[3] = Some(AudioFrame(2, U32Of(0)))
    /\ outputs[4] = Some(AudioFrame(3, U32Of(1)))
    /\ jitter.next_sequence = U32Of(2)

---------------------------------------------------------------------------
(* The capture pipeline: the owner calls start, stop, check_errors and     *)
(* finally drops the capture; the worker thread and the device callbacks   *)
(* run beside it; the sender drains the ring.  The worker thread and a     *)
(* pending join are scheduled fairly.                                      *)

CaptureInit ==
    /\ ring = RingNew(CaptureRingCapacity)
    /\ ringRet = [op |-> "new", ok |-> TRUE, out |-> None, before |-> <<>>]
    /\ pushed = <<>>
    /\ popped = <<>>
    /\ jitter = JitterIdle
    /\ jitterRet = [op |-> "none"]
    /\ lastOut = None
    /\ anchor = U32Of(0)
    /\ arrivals = <<>>
    /\ inserted = 0
    /\ outputs = <<>>
    /\ capture = CaptureNew
    /\ captureRet = [op |-> "new", ok |-> TRUE, out |-> None, done |-> TRUE]
    /\ captureHist = [calls |-> 0, stream_errors |-> 0, phase |-> "created",
                      session |-> [pushed |-> 0, overflow |-> 0]]
    /\ encoder = EncoderIdle
    /\ encoderRet = [op |-> "none"]
    /\ sender = NetIdle
    /\ senderRet = [op |-> "none"]
    /\ wire = <<>>
    /\ receiver = NetIdle
    /\ channel = <<>>
    /\ trackStates = <<>>
    /\ netHist = [sends |-> 0]
    /\ senderLoop = LoopIdle
    /\ loopHist = [pops |-> 0]
    /\ ops = 0

\* captureHist.session is where the ring's history stood when start last
\* reset the counters: the number of frames pushed until then and the
\* overflow_count at that moment.
SessionStart(session, c, c1, frames, rb) ==
    IF ~ c.running /\ c1.running
    THEN [pushed |-> Len(frames), overflow |-> rb.overflow_count]
    ELSE session

\* The life cycle the owner has driven the capture through so far:
\* "created", "running" (first successful start), "stopped" (a stop after
\* that), "restarted" (a successful start after a stop).
PhaseAfterStart(phase, was_running, ok) ==
    IF was_running \/ ~ ok THEN phase
    ELSE IF phase = "stopped" THEN "restarted"
    ELSE "running"

PhaseAfterStop(phase) ==
    IF phase \in {"running", "restarted"} THEN "stopped" ELSE phase

OwnerFree == capture.pc = "idle" /\ captureHist.calls < MaxCaptureCalls

\* the owner calls start()
CapStart ==
    /\ OwnerFree
    /\ \E device_found \in BOOLEAN, spawn_ok \in BOOLEAN :
         LET r == CaptureStart(capture, device_found, spawn_ok)
         IN  /\ capture' = r.c
             /\ captureRet' = [op |-> "start", ok |-> r.ok, out |-> None, done |-> TRUE]
             /\ captureHist' = [captureHist EXCEPT
                                  !.calls = @ + 1,
                                  !.phase = PhaseAfterStart(@, capture.running, r.ok),
                                  !.session = SessionStart(@, capture, r.c, pushed, ring)]
    /\ UNCHANGED <<ringVars, jitterVars, scenarioVars, ops, codecVars, netVars, loopVars>>

\* the owner calls stop()
CapStop ==
    /\ OwnerFree
    /\ capture' = CaptureStop(capture)
    /\ captureRet' = [op |-> "stop", ok |-> TRUE, out |-> None,
                      done |-> ~ capture.thread_handle]
    /\ captureHist' = [captureHist EXCEPT !.calls = @ + 1,
                                          !.phase = PhaseAfterStop(@)]
    /\ UNCHANGED <<ringVars, jitterVars, scenarioVars, ops, codecVars, netVars, loopVars>>

\* the owner drops the capture: Drop calls stop()
CapDrop ==
    /\ OwnerFree
    /\ capture' = [CaptureStop(capture) EXCEPT
                     !.pc = IF capture.thread_handle THEN "joining" ELSE "dropped"]
    /\ captureRet' = [op |-> "drop", ok |-> TRUE, out |-> None,
                      done |-> ~ capture.thread_handle]
    /\ captureHist' = [captureHist EXCEPT !.calls = @ + 1,
                                          !.phase = PhaseAfterStop(@)]
    /\ UNCHANGED <<ringVars, jitterVars, scenarioVars, ops, codecVars, netVars, loopVars>>

\* the join inside stop() returns
CapJoin ==
    /\ capture.pc = "joining"
    /\ capture.worker = "exited"
    /\ capture' = [CaptureJoin(capture) EXCEPT
                     !.pc = IF captureRet.op = "drop" THEN "dropped" ELSE "idle"]
    /\ captureRet' = [captureRet EXCEPT !.done = TRUE]
    /\ UNCHANGED <<captureHist, ringVars, jitterVars, scenarioVars, ops,
                 codecVars, netVars, loopVars>>

\* the owner calls check_errors()
CapCheckErrors ==
    /\ OwnerFree
    /\ LET r == CaptureCheckErrors(capture)
       IN  /\ capture' = r.c
           /\ captureRet' = [op |-> "check_errors", ok |-> TRUE, out |-> r.out,
                             done |-> TRUE]
    /\ captureHist' = [captureHist EXCEPT !.calls = @ + 1]
    /\ UNCHANGED <<ringVars, jitterVars, scenarioVars, ops, codecVars, netVars, loopVars>>

\* the worker thread calls build_input_stream
WorkerBuilds ==
    /\ capture.worker = "spawned"
    /\ \E ok \in BOOLEAN : capture' = WorkerBuild(capture, ok)
    /\ UNCHANGED <<captureRet, captureHist, ringVars, jitterVars, scenarioVars, ops,
                 codecVars, netVars, loopVars>>

\* the worker thread calls stream.play
WorkerPlays ==
    /\ capture.worker = "built"
    /\ \E ok \in BOOLEAN : capture' = WorkerPlay(capture, ok)
    /\ UNCHANGED <<captureRet, captureHist, ringVars, jitterVars, scenarioVars, ops,
                 codecVars, netVars, loopVars>>

\* the worker thread reads running as false and leaves its loop
WorkerLeaves ==
    /\ capture.worker = "playing"
    /\ WorkerLoop(capture) # capture
    /\ capture' = WorkerLoop(capture)
    /\ UNCHANGED <<captureRet, captureHist, ringVars, jitterVars, scenarioVars, ops,
                 codecVars, netVars, loopVars>>

\* the device delivers a block of samples
DeviceInput ==
    /\ StreamAlive(capture)
    /\ ops < MaxCallbacks
    /\ \E data_len \in 1..MaxDataLen :
         LET r == InputCallback(capture, ring, data_len, ops)
         IN  /\ capture' = r.c
             /\ ring' = r.rb
             /\ pushed' = IF IsSome(r.pushed) THEN Append(pushed, Unwrap(r.pushed))
                           ELSE pushed
    /\ ops' = ops + 1
    /\ UNCHANGED <<ringRet, popped, captureRet, captureHist, jitterVars, scenarioVars,
                 codecVars, netVars, loopVars>>

\* the device reports a stream error
DeviceError ==
    /\ StreamAlive(capture)
    /\ captureHist.stream_errors < MaxStreamErrors
    /\ capture' = ErrorCallback(capture)
    /\ captureHist' = [captureHist EXCEPT !.stream_errors = @ + 1]
    /\ UNCHANGED <<captureRet, ringVars, jitterVars, scenarioVars, ops,
                 codecVars, netVars, loopVars>>

\* the sender loop drains one frame with try_pop
SenderTryPop ==
    /\ RingLen(ring) > 0
    /\ LET r == RingTryPop(ring)
       IN  /\ ring' = r.rb
           /\ popped' = Append(popped, Unwrap(r.out))
    /\ UNCHANGED <<ringRet, pushed, captureVars, jitterVars, scenarioVars, ops,
                 codecVars, netVars, loopVars>>

CaptureNext ==
    \/ CapStart \/ CapStop \/ CapDrop \/ CapJoin \/ CapCheckErrors
    \/ WorkerBuilds \/ WorkerPlays \/ WorkerLeaves
    \/ DeviceInput \/ DeviceError \/ SenderTryPop

SpecCapture ==
    /\ CaptureInit
    /\ [][CaptureNext]_vars
    /\ WF_vars(WorkerBuilds)
    /\ WF_vars(WorkerPlays)
    /\ WF_vars(WorkerLeaves)
    /\ WF_vars(CapJoin)

\* the step is a call of op by the owner
OwnerCalls(op) ==
    /\ captureHist'.calls = captureHist.calls + 1
    /\ captureRet'.op = op

\* C17: a start that returns Ok from a capture that is not running (Created
\* or Stopped) leaves it running with the sequence counter and
\* samples_captured at 0 and exactly one worker thread; a start while running
\* returns Ok and changes nothing (no second worker, no counter reset); a stop
\* leaves is_running false.
C17_StateMachine ==
    [][ /\ OwnerCalls("start") /\ ~ IsRunning(capture) /\ captureRet'.ok
           => /\ IsRunning(capture')
              /\ capture'.sequence = U32Of(0)
              /\ capture'.samples_captured = 0
              /\ capture'.threads = 1
              /\ capture'.worker = "spawned"
        /\ OwnerCalls("start") /\ IsRunning(capture)
           => /\ captureRet'.ok
              /\ capture' = capture
        /\ OwnerCalls("stop")
           => ~ IsRunning(capture') ]_vars

\* a capture that was started, captured frames, was stopped and has just been
\* started again: it runs and its counters are back at 0
C17_Witness ==
    /\ captureHist.phase = "restarted"
    /\ captureRet.op = "start"
    /\ captureRet.ok
    /\ IsRunning(capture)
    /\ capture.sequence = U32Of(0)
    /\ capture.samples_captured = 0
    /\ Len(pushed) > 0

\* the owner's stop() or drop has returned
StopReturned == captureRet.op \in {"stop", "drop"} /\ captureRet.done

\* C18: a stop (or drop) that waits in join always returns, and once it has
\* returned is_running is false and no worker thread of the capture is left.
C18_StopTerminates ==
    /\ (capture.pc = "joining") ~> StopReturned
    /\ [](StopReturned => /\ ~ IsRunning(capture)
                          /\ capture.threads = 0
                          /\ capture.worker = "none"
                          /\ ~ capture.thread_handle)

\* a stop that found the worker in its loop, with the stream playing, has
\* returned
C18_Witness ==
    /\ StopReturned
    /\ captureHist.phase = "stopped"
    /\ Len(pushed) > 0
    /\ capture.fault = "none"

\* C19: when start has returned Ok, the stream of the capture has not failed
\* to open (neither build_input_stream nor stream.play has failed).
C19_OpenFailurePropagated ==
    (captureRet.op = "start" /\ captureRet.ok) => capture.fault = "none"

\* C20: once a stream-level failure has occurred on a running capture (the
\* error callback has queued an error, or the worker has failed to build or
\* play the stream), is_running becomes false.
C20_FailureStops ==
    ((capture.fault # "none" \/ capture.errors > 0) /\ IsRunning(capture))
        ~> ~ IsRunning(capture)

\* the step is an input callback of the device stream
InputStep == ops' = ops + 1

\* C31: an input callback that fires while the running flag is false changes
\* nothing: the sequence counter, samples_captured, the ring's contents and
\* its overflow_count stay as they were.
C31_IdleCallback ==
    [][(InputStep /\ ~ IsRunning(capture))
       => /\ capture'.sequence = capture.sequence
          /\ capture'.samples_captured = capture.samples_captured
          /\ ring'.queue = ring.queue
          /\ ring'.overflow_count = ring.overflow_count
          /\ pushed' = pushed]_vars

\* the stream has called back, and only after the one stop of the capture:
\* nothing was pushed, nothing overflowed and the counters are at 0
C31_Witness ==
    /\ ops > 0
    /\ captureHist.phase = "stopped"
    /\ ~ IsRunning(capture)
    /\ pushed = <<>>
    /\ ring.overflow_count = 0
    /\ capture.sequence = U32Of(0)
    /\ capture.samples_captured = 0

\* C32: an input callback that fires while running is true makes exactly one
\* push attempt and does not wait for space: either the ring had room and
\* exactly its frame is appended, or the ring was full, its contents stay
\* and overflow_count grows by exactly one; a full ring never keeps the
\* callback from running.
C32_OnePushAttempt ==
    /\ [][(InputStep /\ IsRunning(capture))
          => LET frame == AudioFrame(ops, capture.sequence)
             IN  \/ /\ ~ RingIsFull(ring)
                    /\ ring'.queue = Append(ring.queue, frame)
                    /\ ring'.overflow_count = ring.overflow_count
                    /\ pushed' = Append(pushed, frame)
                 \/ /\ RingIsFull(ring)
                    /\ ring'.queue = ring.queue
                    /\ ring'.overflow_count = ring.overflow_count + 1
                    /\ pushed' = pushed]_vars
    /\ []((StreamAlive(capture) /\ ops < MaxCallbacks) => ENABLED DeviceInput)

\* the running capture filled the ring and its next callback dropped a frame
C32_Witness ==
    /\ IsRunning(capture)
    /\ StreamAlive(capture)
    /\ RingIsFull(ring)
    /\ ring.overflow_count = 1
    /\ Len(pushed) = CaptureRingCapacity
    /\ ops = CaptureRingCapacity + 1

\* the capture has been stopped (or dropped), that call has returned and no
\* start has succeeded since
Stopped == captureHist.phase = "stopped" /\ capture.pc # "joining"

\* C33: once stop() has returned and until the next start(), the device
\* stream is gone and no frame reaches the ring: nothing is pushed, nothing
\* is counted as overflow, and the ring keeps the frames it holds for the
\* consumer.
C33_QuietAfterStop ==
    /\ [](Stopped => ~ StreamAlive(capture))
    /\ [][Stopped
          => /\ pushed' = pushed
             /\ ring'.overflow_count = ring.overflow_count
             /\ \/ ring'.queue = ring.queue
                \/ ring'.queue = Tail(ring.queue)]_vars

\* stop() has returned after a session that captured frames, the worker is
\* gone and the ring still holds a captured frame
C33_Witness ==
    /\ Stopped
    /\ captureRet.op = "stop"
    /\ capture.worker = "none"
    /\ capture.threads = 0
    /\ Len(pushed) > 0
    /\ Len(ring.queue) > 0

\* C39: after a start that returned an error the capture is not running and
\* has no worker thread, so that a later start makes a new attempt.
C39_FailedStartNotRunning ==
    (captureRet.op = "start" /\ ~ captureRet.ok)
        => /\ ~ IsRunning(capture)
           /\ capture.threads = 0
           /\ ~ capture.thread_handle

\* the frames the ring accepted since start last reset the counters
SessionFrames == SubSeq(pushed, captureHist.session.pushed + 1, Len(pushed))

\* the sequence numbers below n that no frame of s carries
Missing(s, n) ==
    {k \in 0..(n - 1) : \A i \in 1..Len(s) : s[i].sequence # U32Of(k)}

\* C38: within one session the frames the ring accepted carry strictly
\* increasing sequence numbers, the ring hands them on in that order, every
\* frame the full ring refused has used up a sequence number of its own, and
\* the sequence numbers missing from the accepted frames are as many as
\* overflow_count has grown in the session.
C38_GapsCountDrops ==
    LET s == SessionFrames
        n == capture.sequence.lo
    IN  /\ capture.sequence.hi = 0
        /\ \A i \in 1..Len(s) : U32Lt(s[i].sequence, capture.sequence)
        /\ \A i \in 1..(Len(s) - 1) : U32Lt(s[i].sequence, s[i + 1].sequence)
        /\ pushed = popped \o ring.queue
        /\ Cardinality(Missing(s, n)) = ring.overflow_count - captureHist.session.overflow
        /\ n = Len(s) + Cardinality(Missing(s, n))

\* in one session the full ring refused a frame, the consumer made room, and
\* it has popped frames whose sequences skip the refused one
C38_Witness ==
    /\ captureHist.session.pushed = 0
    /\ ring.overflow_count = 1
    /\ \E i \in 1..(Len(popped) - 1) :
           popped[i + 1].sequence = WrappingAdd(popped[i].sequence, 2)
    /\ Cardinality(Missing(SessionFrames, capture.sequence.lo)) = 1

---------------------------------------------------------------------------
(* A sender that restarts its track.  The receiver's buffer takes the      *)
(* frames 0, 1, 2, ... of the first stream, then the frames 0, 1, 2, ...   *)
(* of the restarted stream, in order and without loss, while the consumer  *)
(* calls get_next at any time.  arrivals lists the sequences inserted so   *)
(* far, inserted counts the frames of the restarted stream among them and  *)
(* anchor holds next_sequence as it was when the restarted stream began.   *)

RestartInit ==
    /\ ring = RingNew(0)
    /\ ringRet = [op |-> "none"]
    /\ pushed = <<>>
    /\ popped = <<>>
    /\ \E min_delay \in 0..MaxMinDelay : jitter = JitterNew(2^CapBits, min_delay)
    /\ jitterRet = [op |-> "new", arg |-> None, ok |-> TRUE, out |-> None]
    /\ lastOut = None
    /\ anchor = U32Of(0)
    /\ arrivals = <<>>
    /\ inserted = 0
    /\ outputs = <<>>
    /\ capture = CaptureIdle
    /\ captureRet = [op |-> "none"]
    /\ captureHist = [calls |-> 0]
    /\ encoder = EncoderIdle
    /\ encoderRet = [op |-> "none"]
    /\ sender = NetIdle
    /\ senderRet = [op |-> "none"]
    /\ wire = <<>>
    /\ receiver = NetIdle
    /\ channel = <<>>
    /\ trackStates = <<>>
    /\ netHist = [sends |-> 0]
    /\ senderLoop = LoopIdle
    /\ loopHist = [pops |-> 0]
    /\ ops = 0

\* a frame of the first stream arrives
RsOldInsert ==
    /\ inserted = 0
    /\ Len(arrivals) < MaxOld
    /\ LET frame == AudioFrame(ops, U32Of(Len(arrivals)))
           r == JitterInsert(jitter, frame)
       IN  /\ jitter' = r.jb
           /\ jitterRet' = [op |-> "insert", arg |-> Some(frame), ok |-> r.ok,
                            out |-> None]
           /\ arrivals' = Append(arrivals, frame.sequence)
    /\ ops' = ops + 1
    /\ UNCHANGED <<lastOut, ringVars, anchor, inserted, outputs, captureVars,
                 codecVars, netVars, loopVars>>

\* a frame of the restarted stream arrives; the first one carries sequence 0
RsNewInsert ==
    /\ Len(arrivals) >= 1
    /\ inserted < MaxNew
    /\ LET frame == AudioFrame(ops, U32Of(inserted))
           r == JitterInsert(jitter, frame)
       IN  /\ jitter' = r.jb
           /\ jitterRet' = [op |-> "insert", arg |-> Some(frame), ok |-> r.ok,
                            out |-> None]
           /\ arrivals' = Append(arrivals, frame.sequence)
    /\ anchor' = IF inserted = 0 THEN jitter.next_sequence ELSE anchor
    /\ inserted' = inserted + 1
    /\ ops' = ops + 1
    /\ UNCHANGED <<lastOut, ringVars, outputs, captureVars, codecVars, netVars, loopVars>>

\* the consumer pulls
RsGetNext ==
    /\ Len(outputs) < MaxRestartGets
    /\ LET r == JitterGetNext(jitter)
       IN  /\ jitter' = r.jb
           /\ jitterRet' = [op |-> "get_next", arg |-> None, ok |-> IsSome(r.out),
                            out |-> r.out]
           /\ lastOut' = IF IsSome(r.out) THEN r.out ELSE lastOut
           /\ outputs' = Append(outputs, r.out)
    /\ ops' = ops + 1
    /\ UNCHANGED <<ringVars, anchor, arrivals, inserted, captureVars,
                 codecVars, netVars, loopVars>>

RestartNext == RsOldInsert \/ RsNewInsert \/ RsGetNext

SpecRestart == RestartInit /\ [][RestartNext]_vars

\* s is more than half the capacity ahead of sequence 0
FarAhead(jb, s) == U32Lt(U32Of(jb.capacity \div 2), s)

\* C30: when the restarted stream begins while next_sequence is more than C/2
\* ahead of 0, its first frame (sequence 0) is accepted with late unchanged,
\* and from then on get_next returns None as long as fewer than min_delay
\* frames of the restarted stream have been inserted.
C30_RestartPrebuffers ==
    [][/\ (jitterRet'.op = "insert" /\ inserted = 0 /\ inserted' = 1
           /\ FarAhead(jitter, jitter.next_sequence))
          => (jitterRet'.ok /\ jitter'.late = jitter.late)
       /\ (jitterRet'.op = "get_next" /\ Len(outputs') > Len(outputs)
           /\ inserted >= 1 /\ FarAhead(jitter, anchor)
           /\ inserted < jitter.min_delay)
          => jitterRet'.out = None]_vars

---------------------------------------------------------------------------
(* The OpusEncoder under any sequence of encode calls, with sample slices  *)
(* of every length around frame_size x channels.                            *)

EncoderInit ==
    /\ ring = RingNew(0)
    /\ ringRet = [op |-> "none"]
    /\ pushed = <<>>
    /\ popped = <<>>
    /\ jitter = JitterIdle
    /\ jitterRet = [op |-> "none"]
    /\ lastOut = None
    /\ anchor = U32Of(0)
    /\ arrivals = <<>>
    /\ inserted = 0
    /\ outputs = <<>>
    /\ capture = CaptureIdle
    /\ captureRet = [op |-> "none"]
    /\ captureHist = [calls |-> 0]
    /\ \E frame_size \in 1..MaxFrameSize, channels \in {1, 2} :
         encoder = EncoderNew(frame_size, channels)
    /\ encoderRet = [op |-> "new", len |-> 0, res |-> [err |-> "none", arg |-> 0]]
    /\ sender = NetIdle
    /\ senderRet = [op |-> "none"]
    /\ wire = <<>>
    /\ receiver = NetIdle
    /\ channel = <<>>
    /\ trackStates = <<>>
    /\ netHist = [sends |-> 0]
    /\ senderLoop = LoopIdle
    /\ loopHist = [pops |-> 0]
    /\ ops = 0

CodecResults == {None} \cup {Some(size) : size \in 0..MaxCodecSize}

\* the owner calls encode(samples)
EncEncode ==
    /\ ops < MaxEncodeCalls
    /\ \E len \in 0..(2 * MaxFrameSize + 1), codec \in CodecResults :
         LET r == EncoderEncode(encoder, len, codec)
         IN  /\ encoder' = r.enc
             /\ encoderRet' = [op |-> "encode", len |-> len, res |-> r.res]
    /\ ops' = ops + 1
    /\ UNCHANGED <<ringVars, jitterVars, scenarioVars, captureVars, netVars, loopVars>>

EncoderNext == EncEncode

SpecEncoder == EncoderInit /\ [][EncoderNext]_vars

\* C21: an encode whose slice length differs from frame_size x channels
\* returns InvalidFrameSize (naming that length) and leaves the encoder as it
\* was: frames_encoded, bytes_produced and the codec, which is not called.
C21_InvalidFrameSize ==
    [][(ops' = ops + 1 /\ encoderRet'.len # encoder.frame_size * encoder.channels)
       => /\ encoderRet'.res = [err |-> "InvalidFrameSize", arg |-> encoderRet'.len]
          /\ encoder' = encoder]_vars

\* an encoder that has encoded frames was then offered a slice one sample
\* short and refused it
C21_Witness ==
    /\ encoderRet.op = "encode"
    /\ encoderRet.res.err = "InvalidFrameSize"
    /\ encoderRet.len = SamplesPerFrame(encoder) - 1
    /\ encoder.frames_encoded = 2
    /\ encoder.bytes_produced > 0
    /\ encoder.encoder = 2

---------------------------------------------------------------------------
(* The wire codec and the receiver's I/O thread.  Packets are built, the   *)
(* network delivers each datagram intact or damaged (cut short, extended,  *)
(* a header byte rewritten), and the I/O thread parses what arrives.       *)
(* netHist.arrived records, per datagram, the packet it was built from and *)
(* the damage done to it.                                                  *)

WireTimestamps == {<<0, 0, 0, 0>>, <<258, 772, 1286, 1800>>}
WireSequences == {U32(258, 772), U32Max}
WireTracks == {0, 255}

\* payloads of 1..MaxPayloadBytes bytes and one of the largest size
WirePayloads ==
    {[i \in 1..n |-> (b + i) % 256] : n \in 1..MaxPayloadBytes, b \in {0, 254}}
        \cup {[i \in 1..MaxPayloadLen |-> i % 256]}

\* the valid packets offered to build
WirePackets ==
    {Packet(t, s, ts, st, fec, pl) :
        t \in WireTracks, s \in WireSequences, ts \in WireTimestamps,
        st \in BOOLEAN, fec \in BOOLEAN, pl \in WirePayloads}

\* the packet that follows the first datagram, and what may happen to it
WireProbes == {Packet(0, U32Of(1), <<0, 0, 0, 1>>, TRUE, FALSE, <<7>>)}
ProbeDamages == {"none", "header_only", "cut_last"}

Damages ==
    {"none", "empty", "cut_to_15", "cut_to_16", "header_only", "cut_last",
     "extended", "reserved_bit_2", "reserved_bit_7", "payload_len_up"}

\* the datagram d after the network has damaged it
Damaged(d, how) ==
    CASE how = "none" -> d
      [] how = "empty" -> <<>>
      [] how = "cut_to_15" -> SubSeq(d, 1, 15)
      [] how = "cut_to_16" -> SubSeq(d, 1, 16)
      [] how = "header_only" -> SubSeq(d, 1, 14) \o <<0, 0>>
      [] how = "cut_last" -> SubSeq(d, 1, Len(d) - 1)
      [] how = "extended" -> Append(d, 0)
      [] how = "reserved_bit_2" -> [d EXCEPT ![2] = @ + 4]
      [] how = "reserved_bit_7" -> [d EXCEPT ![2] = @ + 128]
      [] how = "payload_len_up" -> [d EXCEPT ![16] = (@ + 1) % 256]

WireInit ==
    /\ ring = RingNew(0)
    /\ ringRet = [op |-> "none"]
    /\ pushed = <<>>
    /\ popped = <<>>
    /\ jitter = JitterIdle
    /\ jitterRet = [op |-> "none"]
    /\ lastOut = None
    /\ anchor = U32Of(0)
    /\ arrivals = <<>>
    /\ inserted = 0
    /\ outputs = <<>>
    /\ capture = CaptureIdle
    /\ captureRet = [op |-> "none"]
    /\ captureHist = [calls |-> 0]
    /\ encoder = EncoderIdle
    /\ encoderRet = [op |-> "none"]
    /\ sender = NetIdle
    /\ senderRet = [op |-> "none"]
    /\ wire = <<>>
    /\ receiver = ReceiverNew
    /\ channel = <<>>
    /\ trackStates = <<>>
    /\ netHist = [sends |-> 0, arrived |-> <<>>, parsed |-> 0]
    /\ senderLoop = LoopIdle
    /\ loopHist = [pops |-> 0]
    /\ ops = 0

\* a packet is built and its datagram reaches the socket, intact or damaged
WireArrive ==
    /\ Len(netHist.arrived) < MaxDatagrams
    /\ \E p \in (IF netHist.arrived = <<>> THEN WirePackets ELSE WireProbes),
          how \in (IF netHist.arrived = <<>> THEN Damages ELSE ProbeDamages) :
         LET b == PacketBuild(p)
         IN  /\ b.ok
             /\ wire' = Append(wire, Damaged(b.datagram, how))
             /\ netHist' = [netHist EXCEPT
                              !.sends = @ + 1,
                              !.arrived = Append(@, [packet |-> p, damage |-> how])]
    /\ UNCHANGED <<receiver, channel, sender, senderRet, trackStates, ops,
                   ringVars, jitterVars, scenarioVars, captureVars, codecVars, loopVars>>

\* the I/O thread receives the oldest datagram and parses it
WireRecv ==
    /\ receiver.running
    /\ wire # <<>>
    /\ LET r == ReceiverRecv(receiver, channel, Head(wire))
       IN  /\ receiver' = r.rx
           /\ channel' = r.ch
    /\ wire' = Tail(wire)
    /\ netHist' = [netHist EXCEPT !.parsed = @ + 1]
    /\ UNCHANGED <<sender, senderRet, trackStates, ops,
                   ringVars, jitterVars, scenarioVars, captureVars, codecVars, loopVars>>

\* the receiver is stopped
WireStop ==
    /\ receiver.running
    /\ receiver' = ReceiverStop(receiver)
    /\ UNCHANGED <<wire, channel, netHist, sender, senderRet, trackStates, ops,
                   ringVars, jitterVars, scenarioVars, captureVars, codecVars, loopVars>>

WireNext == WireArrive \/ WireRecv \/ WireStop

SpecWire == WireInit /\ [][WireNext]_vars

\* C23: for every valid packet p (payload of 1..1200 bytes), build succeeds
\* and parse of the built datagram returns exactly p: track_id, sequence,
\* timestamp, is_stereo, is_fec and payload.
C23_RoundTrip ==
    \A i \in 1..Len(netHist.arrived) :
        LET p == netHist.arrived[i].packet
        IN  (Len(p.payload) >= 1 /\ Len(p.payload) <= MaxPayloadLen)
            => /\ PacketBuild(p).ok
               /\ PacketParse(PacketBuild(p).datagram) = Some(p)

\* an intact datagram carrying a 1200-byte payload, both flags set and a
\* sequence and timestamp whose bytes all differ went through the I/O thread
\* and came out of the channel's end as the packet that was built
C23_Witness ==
    /\ netHist.parsed >= 1
    /\ netHist.arrived[1].damage = "none"
    /\ channel # <<>>
    /\ channel[1] = netHist.arrived[1].packet
    /\ Len(channel[1].payload) = MaxPayloadLen
    /\ channel[1].is_stereo /\ channel[1].is_fec
    /\ channel[1].sequence = U32(258, 772)
    /\ channel[1].timestamp = <<258, 772, 1286, 1800>>
    /\ channel[1].track_id = 255

\* the datagram is one the claim calls invalid
Invalid(d) ==
    \/ Len(d) < HeaderSize + 1
    \/ BeU16(d[15], d[16]) + HeaderSize # Len(d)
    \/ d[2] \div 4 # 0

\* C24: a datagram that is shorter than 17 bytes, or whose payload_len + 16
\* differs from its length, or that has a reserved flag bit set, is counted
\* in invalid_packets, puts nothing into the channel and leaves the I/O
\* thread running.
C24_ParseRejects ==
    [][(netHist'.parsed = netHist.parsed + 1 /\ Invalid(Head(wire)))
       => /\ receiver'.invalid_packets = receiver.invalid_packets + 1
          /\ channel' = channel
          /\ receiver'.running]_vars

---------------------------------------------------------------------------
(* Sender to receiver.  send_audio puts datagrams on the wire, the network *)
(* delivers them in order or loses them, the receiver's I/O thread parses  *)
(* them into the channel and the receiver's main loop takes them from      *)
(* there, one packet per step.  The statistics the main loop prints every  *)
(* five seconds are TrackReport of the state at that moment.               *)
(* netHist records: last[t], the sequence of the last packet composed for  *)
(* track t; order[t], the sequences put on the wire for t, in order; lost  *)
(* and processed, the packets lost in transit and those the main loop fed  *)
(* to a track's pipeline; made, the tracks for which OpusDecoder::new has   *)
(* succeeded; decode, how the main loop's last packet fared: "ok", "error" *)
(* (decode failed) or "none" (no pipeline, the packet was skipped).        *)

Tracks == {0, 1}

SenderStarts ==
    {[t \in Tracks |-> U32Of(0)], [t \in Tracks |-> U32Max]}

SocketResults == {"sent", "would_block", "error"}

NetworkInit ==
    /\ ring = RingNew(0)
    /\ ringRet = [op |-> "none"]
    /\ pushed = <<>>
    /\ popped = <<>>
    /\ jitter = JitterIdle
    /\ jitterRet = [op |-> "none"]
    /\ lastOut = None
    /\ anchor = U32Of(0)
    /\ arrivals = <<>>
    /\ inserted = 0
    /\ outputs = <<>>
    /\ capture = CaptureIdle
    /\ captureRet = [op |-> "none"]
    /\ captureHist = [calls |-> 0]
    /\ encoder = EncoderIdle
    /\ encoderRet = [op |-> "none"]
    /\ \E start \in SenderStarts : sender = SenderNew(start)
    /\ senderRet = [op |-> "new", track_id |-> 0, packet |-> None, io |-> "none",
                    err |-> "none"]
    /\ wire = <<>>
    /\ receiver = ReceiverNew
    /\ channel = <<>>
    /\ trackStates = <<>>
    /\ netHist = [sends |-> 0,
                  last |-> [t \in Tracks |-> None],
                  order |-> [t \in Tracks |-> <<>>],
                  wired |-> 0,
                  lost |-> {},
                  processed |-> {},
                  made |-> {},
                  decode |-> "none"]
    /\ senderLoop = LoopIdle
    /\ loopHist = [pops |-> 0]
    /\ ops = 0

\* the track and sequence a datagram or packet carries
Ident(p) == <<p.track_id, p.sequence>>

\* the sender loop calls send_audio for some track
NetSend ==
    /\ netHist.sends < MaxSends
    /\ \E track_id \in Tracks, io \in SocketResults :
         LET r == SenderSendAudio(sender, track_id, <<7>>,
                                  <<0, 0, 0, netHist.sends>>, TRUE, io)
             out == IsSome(r.datagram)
         IN  /\ sender' = r.s
             /\ senderRet' = [op |-> "send_audio", track_id |-> track_id,
                              packet |-> r.packet, io |-> io, err |-> r.err]
             /\ wire' = IF out THEN Append(wire, Unwrap(r.datagram)) ELSE wire
             /\ netHist' = [netHist EXCEPT
                              !.sends = @ + 1,
                              !.last[track_id] =
                                  IF IsSome(r.packet)
                                  THEN Some(Unwrap(r.packet).sequence) ELSE @,
                              !.order[track_id] =
                                  IF out THEN Append(@, Unwrap(r.packet).sequence)
                                  ELSE @,
                              !.wired = IF out THEN @ + 1 ELSE @]
    /\ UNCHANGED <<receiver, channel, trackStates, ops,
                   ringVars, jitterVars, scenarioVars, captureVars, codecVars, loopVars>>

\* the network loses the oldest datagram in flight
NetLose ==
    /\ wire # <<>>
    /\ wire' = Tail(wire)
    /\ netHist' = [netHist EXCEPT !.lost = @ \cup {Ident(ParsedFields(Head(wire)))}]
    /\ UNCHANGED <<sender, senderRet, receiver, channel, trackStates, ops,
                   ringVars, jitterVars, scenarioVars, captureVars, codecVars, loopVars>>

\* the I/O thread receives the oldest datagram in flight
NetRecv ==
    /\ receiver.running
    /\ wire # <<>>
    /\ LET r == ReceiverRecv(receiver, channel, Head(wire))
       IN  /\ receiver' = r.rx
           /\ channel' = r.ch
    /\ wire' = Tail(wire)
    /\ UNCHANGED <<sender, senderRet, trackStates, netHist, ops,
                   ringVars, jitterVars, scenarioVars, captureVars, codecVars, loopVars>>

\* the main loop takes a packet from the channel
MainRecv ==
    /\ channel # <<>>
    /\ \E decoder_ok \in BOOLEAN, has_playback \in BOOLEAN, decode_ok \in BOOLEAN :
         /\ trackStates' = MainProcess(trackStates, Head(channel), decoder_ok,
                                       has_playback, decode_ok)
         /\ netHist' = [netHist EXCEPT
                          !.processed =
                              IF Head(channel).track_id \in DOMAIN trackStates'
                                 /\ decode_ok
                              THEN @ \cup {Ident(Head(channel))} ELSE @,
                          !.made =
                              IF Head(channel).track_id \notin DOMAIN trackStates
                                 /\ decoder_ok
                              THEN @ \cup {Head(channel).track_id} ELSE @,
                          !.decode =
                              IF Head(channel).track_id \notin DOMAIN trackStates'
                              THEN "none"
                              ELSE IF decode_ok THEN "ok" ELSE "error"]
    /\ channel' = Tail(channel)
    /\ UNCHANGED <<sender, senderRet, wire, receiver, ops,
                   ringVars, jitterVars, scenarioVars, captureVars, codecVars, loopVars>>

NetworkNext == NetSend \/ NetLose \/ NetRecv \/ MainRecv

SpecNetwork == NetworkInit /\ [][NetworkNext]_vars

\* a packet of track t was lost in transit and a packet sent after it on the
\* same track went through the track's pipeline
Gap(t) ==
    \E i, j \in 1..Len(netHist.order[t]) :
        /\ i < j
        /\ <<t, netHist.order[t][i]>> \in netHist.lost
        /\ <<t, netHist.order[t][j]>> \in netHist.processed

\* C22: once a track has a gap (a packet lost in transit, a later one
\* received) and everything in flight has been processed, the track's
\* statistics show the loss: the lost count of its jitter buffer and the loss
\* rate it reports are above 0.
C22_LossVisible ==
    \A t \in DOMAIN trackStates :
        (Gap(t) /\ wire = <<>> /\ channel = <<>>)
        => /\ JitterStats(trackStates[t].jitter_buffer).lost > 0
           /\ TrackReport(trackStates[t]).loss_rate.num > 0

\* the step is a send_audio call
SendStep == netHist'.sends = netHist.sends + 1

\* C25: every send_audio composes a packet whose sequence is one more, modulo
\* 2^32, than that of the packet composed before it for the same track,
\* whatever was sent for other tracks in between, and leaves the counters of
\* the other tracks alone; a send that would block adds one to send_dropped
\* and puts nothing on the wire, and nothing reaches the wire except the one
\* datagram of a call whose send succeeded.
C25_SequencePerTrack ==
    [][/\ SendStep =>
            LET t == senderRet'.track_id
            IN  /\ IsSome(senderRet'.packet)
                /\ Unwrap(senderRet'.packet).track_id = t
                /\ IsSome(netHist.last[t]) =>
                      Unwrap(senderRet'.packet).sequence
                          = WrappingAdd1(Unwrap(netHist.last[t]))
                /\ \A u \in Tracks \ {t} :
                      sender'.sequences[u] = sender.sequences[u]
                /\ senderRet'.io = "would_block" =>
                      /\ sender'.send_dropped = sender.send_dropped + 1
                      /\ wire' = wire
                /\ senderRet'.io = "sent" =>
                      wire' = Append(wire, PacketBuild(Unwrap(senderRet'.packet)).datagram)
       /\ Len(wire') > Len(wire) => (SendStep /\ senderRet'.io = "sent")]_vars

\* track 0 has wrapped from 2^32 - 1 to 0 around a send for track 1, and one
\* of the three sends would have blocked
C25_Witness ==
    /\ senderRet.op = "send_audio"
    /\ netHist.last[0] = Some(U32Of(0))
    /\ netHist.last[1] = Some(U32Max)
    /\ sender.sequences[0] = U32Of(1)
    /\ sender.send_dropped = 1
    /\ sender.packets_sent = 2


\* the step is the main loop taking a packet from the channel
MainStep == Len(channel') < Len(channel)

\* C36: the pipelines that exist are those of the tracks for which a packet
\* reached the main loop and the decoder could be created; a packet of track
\* t creates at most the pipeline of t, and only when t has none; a pipeline
\* that exists stays, with its decoder, jitter buffer and playback carried
\* on; a packet of track t changes no pipeline but that of t, and nothing
\* but a packet changes a pipeline.
C36_LazyPipelines ==
    /\ [](DOMAIN trackStates = netHist.made)
    /\ [][/\ DOMAIN trackStates \subseteq DOMAIN trackStates'
          /\ ~ MainStep => trackStates' = trackStates
          /\ MainStep =>
                LET t == Head(channel).track_id
                IN  /\ \A u \in DOMAIN trackStates' \ {t} :
                          /\ u \in DOMAIN trackStates
                          /\ trackStates'[u] = trackStates[u]
                    /\ t \in DOMAIN trackStates =>
                          /\ trackStates'[t].packets_received
                               = trackStates[t].packets_received + 1
                          /\ IsSome(trackStates'[t].playback)
                               = IsSome(trackStates[t].playback)
                          /\ JitterStats(trackStates'[t].jitter_buffer).received
                               >= JitterStats(trackStates[t].jitter_buffer).received
                    /\ (t \notin DOMAIN trackStates /\ t \in DOMAIN trackStates') =>
                          trackStates'[t].packets_received = 1]_vars

\* both tracks have their pipeline; that of track 0 was made by its first
\* packet and has taken a second one after track 1 appeared
C36_Witness ==
    /\ DOMAIN trackStates = {0, 1}
    /\ trackStates[0].packets_received = 2
    /\ trackStates[1].packets_received = 1
    /\ netHist.made = {0, 1}
    /\ channel = <<>>

---------------------------------------------------------------------------
(* The whole pipeline for one track: the device delivers frames of samples *)
(* into the capture ring, the sender's main loop pops them, accumulates,   *)
(* encodes and sends; the datagrams cross the network, the receiver's I/O  *)
(* thread parses them and the receiver's main loop feeds the track's       *)
(* pipeline.  The codec, the socket and the decoder may fail at any call.  *)
(* loopHist records: captured, the frames delivered; next_sample, the      *)
(* number of the next sample; blocks, the slices given to encode, in call  *)
(* order; last, what the loop's last turn found and did.                   *)

\* what the codec and the socket do for one block
LoopOutcomes ==
    {[codec |-> None, io |-> "sent"]}
        \cup {[codec |-> Some(1), io |-> io] : io \in {"sent", "error"}}

PipelineInit ==
    /\ ring = RingNew(CaptureRingCapacity)
    /\ ringRet = [op |-> "none"]
    /\ pushed = <<>>
    /\ popped = <<>>
    /\ jitter = JitterIdle
    /\ jitterRet = [op |-> "none"]
    /\ lastOut = None
    /\ anchor = U32Of(0)
    /\ arrivals = <<>>
    /\ inserted = 0
    /\ outputs = <<>>
    /\ capture = CaptureIdle
    /\ captureRet = [op |-> "none"]
    /\ captureHist = [calls |-> 0]
    /\ \E frame_size \in 1..MaxFrameSize : encoder = EncoderNew(frame_size, 2)
    /\ encoderRet = [op |-> "none"]
    /\ sender = SenderNew([t \in Tracks |-> U32Of(0)])
    /\ senderRet = [op |-> "none"]
    /\ wire = <<>>
    /\ receiver = ReceiverNew
    /\ channel = <<>>
    /\ trackStates = <<>>
    /\ netHist = [sends |-> 0, processed |-> {}, made |-> {}, decode |-> "none"]
    /\ senderLoop = SenderLoopNew
    /\ loopHist = [pops |-> 0, captured |-> 0, next_sample |-> 1, blocks |-> <<>>,
                   last |-> [before |-> 0, len |-> 0, results |-> <<>>]]
    /\ ops = 0

\* the capture's input callback pushes a frame of data_len samples
LoopCapture ==
    /\ loopHist.captured < MaxLoopFrames
    /\ \E data_len \in 1..MaxFrameLen :
         LET samples == [k \in 1..data_len |-> loopHist.next_sample + k - 1]
             frame == SampleFrame(samples, loopHist.captured, U32Of(loopHist.captured))
             r == RingPush(ring, frame)
         IN  /\ ring' = r.rb
             /\ pushed' = IF r.ok THEN Append(pushed, frame) ELSE pushed
             /\ loopHist' = [loopHist EXCEPT !.captured = @ + 1,
                                             !.next_sample = @ + data_len]
    /\ UNCHANGED <<ringRet, popped, senderLoop, ops,
                   jitterVars, scenarioVars, captureVars, codecVars, netVars>>

\* the turns the inner loop takes for the popped frame, each asking the
\* codec and possibly the socket once
LoopTurns(lp, enc, frame) ==
    (Len(lp.sample_buffer) + Len(frame.samples)) \div SamplesPerFrame(enc)

\* the sender loop pops a frame and works through it
LoopPop ==
    /\ RingLen(ring) > 0
    /\ \E outcomes \in [1..LoopTurns(senderLoop, encoder, Head(ring.queue))
                           -> LoopOutcomes] :
         LET r == RingTryPop(ring)
             frame == Unwrap(r.out)
             st == SenderLoopBody(senderLoop, encoder, sender, frame, outcomes)
         IN  /\ ring' = r.rb
             /\ popped' = Append(popped, frame)
             /\ senderLoop' = st.lp
             /\ encoder' = st.enc
             /\ sender' = st.snd
             /\ wire' = wire \o st.out
             /\ loopHist' = [loopHist EXCEPT
                               !.pops = @ + 1,
                               !.blocks = @ \o st.blocks,
                               !.last = [before |-> Len(senderLoop.sample_buffer),
                                         len |-> Len(frame.samples),
                                         results |-> st.results]]
    /\ UNCHANGED <<ringRet, pushed, encoderRet, senderRet, receiver, channel,
                   trackStates, netHist, ops,
                   jitterVars, scenarioVars, captureVars>>

PipelineNext == LoopCapture \/ LoopPop \/ NetRecv \/ MainRecv

SpecPipeline == PipelineInit /\ [][PipelineNext]_vars

\* the samples of the frames s, one after the other
RECURSIVE Samples(_)
Samples(s) == IF s = <<>> THEN <<>> ELSE Head(s).samples \o Samples(Tail(s))

\* the blocks b, one after the other
RECURSIVE Joined(_)
Joined(b) == IF b = <<>> THEN <<>> ELSE Head(b) \o Joined(Tail(b))

\* C34: the loop gives the encoder the popped samples in arrival order, in
\* blocks of exactly frame_size x channels samples: after every popped frame
\* fewer than frame_size x channels samples wait in the accumulator, the
\* encode calls made are floor(samples popped / (frame_size x channels)), all
\* of them passed the encoder's length check, and the blocks followed by the
\* accumulator are the popped samples, none skipped, doubled or out of place.
C34_BlocksInOrder ==
    LET block == encoder.frame_size * encoder.channels
        total == Samples(popped)
    IN  /\ Len(senderLoop.sample_buffer) < block
        /\ \A i \in 1..Len(loopHist.blocks) : Len(loopHist.blocks[i]) = block
        /\ Len(loopHist.blocks) = Len(total) \div block
        /\ encoder.encoder = Len(loopHist.blocks)
        /\ Joined(loopHist.blocks) \o senderLoop.sample_buffer = total
        /\ \A i \in 1..Len(total) : total[i] = total[1] + i - 1

\* the loop has popped two frames and encoded two blocks, the second made
\* of samples of both frames, and a sample is left waiting
C34_Witness ==
    /\ Len(popped) = 2
    /\ Len(loopHist.blocks) = 2
    /\ loopHist.last.before > 0
    /\ Len(loopHist.last.results) = 1
    /\ Len(senderLoop.sample_buffer) > 0
    /\ loopHist.blocks[2][1] <= Len(popped[1].samples)
    /\ encoder.channels = 2

\* the step is a turn of the sender loop on a popped frame
LoopStep == loopHist'.pops = loopHist.pops + 1

\* how many of the results r are x
Count(r, x) == Cardinality({i \in 1..Len(r) : r[i] = x})

\* C35: a failure on the audio path ends neither loop.  In the receiver a
\* packet of track t whose decode fails adds one to the packets_lost of t,
\* gives no frame to its jitter buffer or playback, and the loop takes the
\* packets that follow.  In the sender a block whose encode or send fails
\* is given up, and the loop goes on with the next block: every complete
\* block of the turn is tried and only the blocks that went well reach the
\* wire.
C35_FailuresDoNotStop ==
    /\ [][(MainStep /\ netHist'.decode = "error")
          => LET t == Head(channel).track_id
                 known == t \in DOMAIN trackStates
                 after == trackStates'[t]
             IN  /\ after.packets_lost
                      = (IF known THEN trackStates[t].packets_lost ELSE 0) + 1
                 /\ after.jitter_buffer
                      = (IF known THEN trackStates[t].jitter_buffer
                         ELSE JitterNew(TrackJitterCapacity, TrackMinDelay))
                 /\ after.playback
                      \in (IF known THEN {trackStates[t].playback}
                           ELSE {None, Some(0)})
                 /\ channel' = Tail(channel)]_vars
    /\ [][LoopStep
          => LET block == encoder.frame_size * encoder.channels
                 results == loopHist'.last.results
             IN  /\ Len(results) = (loopHist'.last.before + loopHist'.last.len) \div block
                 /\ Len(senderLoop'.sample_buffer) < block
                 /\ Len(loopHist'.blocks) = Len(loopHist.blocks) + Len(results)
                 /\ Len(wire') = Len(wire) + Count(results, "ok")]_vars
    /\ [](channel # <<>> => ENABLED MainRecv)

\* in one turn the sender loop lost a block to an encode or send error and
\* sent the next one; of the two packets that arrived the receiver could not
\* decode one and has fed the other to the track's pipeline after it
C35_Witness ==
    /\ loopHist.last.results \in {<<"encode_error", "ok">>, <<"send_error", "ok">>}
    /\ sender.packets_sent = 2
    /\ LoopTrackId \in DOMAIN trackStates
    /\ trackStates[LoopTrackId].packets_received = 2
    /\ trackStates[LoopTrackId].packets_lost = 1
    /\ JitterStats(trackStates[LoopTrackId].jitter_buffer).received = 1
    /\ netHist.decode = "ok"

---------------------------------------------------------------------------
(* A steady stream: the sender sends the packets of one track one after    *)
(* the other, every datagram arrives, and the receiver's main loop finds a *)
(* decoder for the track and decodes every packet.                         *)

FeedInit ==
    /\ ring = RingNew(0)
    /\ ringRet = [op |-> "none"]
    /\ pushed = <<>>
    /\ popped = <<>>
    /\ jitter = JitterIdle
    /\ jitterRet = [op |-> "none"]
    /\ lastOut = None
    /\ anchor = U32Of(0)
    /\ arrivals = <<>>
    /\ inserted = 0
    /\ outputs = <<>>
    /\ capture = CaptureIdle
    /\ captureRet = [op |-> "none"]
    /\ captureHist = [calls |-> 0]
    /\ encoder = EncoderIdle
    /\ encoderRet = [op |-> "none"]
    /\ sender = SenderNew([t \in Tracks |-> U32Of(0)])
    /\ senderRet = [op |-> "none"]
    /\ wire = <<>>
    /\ receiver = ReceiverNew
    /\ channel = <<>>
    /\ trackStates = <<>>
    /\ netHist = [sends |-> 0]
    /\ senderLoop = LoopIdle
    /\ loopHist = [pops |-> 0]
    /\ ops = 0

\* the sender sends the next packet of the track and the socket takes it
FeedSend ==
    /\ netHist.sends < MaxFeed
    /\ LET r == SenderSendAudio(sender, LoopTrackId, <<7>>,
                                <<0, 0, 0, netHist.sends>>, TRUE, "sent")
       IN  /\ sender' = r.s
           /\ wire' = Append(wire, Unwrap(r.datagram))
    /\ netHist' = [netHist EXCEPT !.sends = @ + 1]
    /\ UNCHANGED <<senderRet, receiver, channel, trackStates, ops,
                   ringVars, jitterVars, scenarioVars, captureVars, codecVars,
                   loopVars>>

\* the I/O thread receives the oldest datagram in flight
FeedRecv ==
    /\ wire # <<>>
    /\ LET r == ReceiverRecv(receiver, channel, Head(wire))
       IN  /\ receiver' = r.rx
           /\ channel' = r.ch
    /\ wire' = Tail(wire)
    /\ UNCHANGED <<sender, senderRet, trackStates, netHist, ops,
                   ringVars, jitterVars, scenarioVars, captureVars, codecVars,
                   loopVars>>

\* the main loop takes a packet from the channel; OpusDecoder::new and
\* decode succeed
FeedMain ==
    /\ channel # <<>>
    /\ \E has_playback \in BOOLEAN :
         trackStates' = MainProcess(trackStates, Head(channel), TRUE,
                                    has_playback, TRUE)
    /\ channel' = Tail(channel)
    /\ UNCHANGED <<sender, senderRet, wire, receiver, netHist, ops,
                   ringVars, jitterVars, scenarioVars, captureVars, codecVars,
                   loopVars>>

FeedNext == FeedSend \/ FeedRecv \/ FeedMain

SpecFeed == FeedInit /\ [][FeedNext]_vars

\* C37: the level the receiver reports for a track's jitter buffer is at
\* most the capacity it reports with it.
C37_LevelWithinCapacity ==
    \A t \in DOMAIN trackStates :
        TrackReport(trackStates[t]).level <= TrackReport(trackStates[t]).capacity
====
